---- MODULE Spec2Model ----
(***************************************************************************)
(* Model of jupyter_ai_router.router.MessageRouter: the chat message       *)
(* dispatcher (observer registries, chat connection lifecycle, slash       *)
(* command routing) and the notebook activity engine (user/room trackers,  *)
(* deferred resolution tasks, debounced activity detection).               *)
(*                                                                         *)
(* Strings that the code inspects character by character (message bodies,  *)
(* command patterns) are sequences of one-character strings.               *)
(***************************************************************************)
EXTENDS Integers, Sequences, FiniteSets, TLC

None == "None"

(***************************************************************************)
(* Bounds of the model.                                                    *)
(***************************************************************************)
MaxBodyLen == 4
MaxObservers == 2
MaxSubs == 2
MaxObserverIds == 2
MaxTasks == 2
MaxLifeTasks == 1
MaxActTasks == 1
MaxTicks == 2
TicksPerSecond == 2
MaxPatternLen == 4
MaxWordLen == 3

(***************************************************************************)
(* Generic helpers.                                                        *)
(***************************************************************************)
Min(S) == CHOOSE x \in S : \A y \in S : x <= y

Range(s) == {s[i] : i \in 1..Len(s)}

SeqsUpTo(S, n) == UNION {[1..k -> S] : k \in 0..n}

RECURSIVE Flatten(_)
Flatten(ss) == IF ss = <<>> THEN <<>> ELSE Head(ss) \o Flatten(Tail(ss))

RECURSIVE SetSum(_, _)
SetSum(S, f) ==
    IF S = {} THEN 0
    ELSE LET x == CHOOSE y \in S : TRUE IN f[x] + SetSum(S \ {x}, f)

\* a Python dict: a function whose DOMAIN is the set of keys
DictSet(d, k, v) == [x \in DOMAIN d \cup {k} |-> IF x = k THEN v ELSE d[x]]

DictDel(d, k) == [x \in DOMAIN d \ {k} |-> d[x]]

DictGet(d, k, default) == IF k \in DOMAIN d THEN d[k] ELSE default

EmptyDict == [x \in {} |-> None]

(***************************************************************************)
(* matches_pattern: re.match("^" + pattern + "$", word), False on re.error *)
(* The regular expressions are those over literals, ".", "*", "|", "(",    *)
(* ")" and "[" (never closed here, hence always a compile error), with the *)
(* anchors the wrapper adds.  AltEnds gives the set of positions at which  *)
(* a match of s[lo..hi] that starts at a position of S can end.            *)
(***************************************************************************)
Depth(s, lo, k) ==
    Cardinality({j \in lo..(k - 1) : s[j] = "("}) - Cardinality({j \in lo..(k - 1) : s[j] = ")"})

CloseParen(s, lo) == Min({k \in (lo + 1)..Len(s) : s[k] = ")" /\ Depth(s, lo, k + 1) = 0})

TopBars(s, lo, hi) == {k \in lo..hi : s[k] = "|" /\ Depth(s, lo, k) = 0}

RegexCompiles(s) ==
    /\ \A k \in 1..Len(s) : s[k] # "["
    /\ \A k \in 1..Len(s) : Depth(s, 1, k + 1) >= 0
    /\ Depth(s, 1, Len(s) + 1) = 0
    /\ \A k \in 1..Len(s) : s[k] = "*" => (k > 1 /\ s[k - 1] \notin {"(", "|", "*", "^"})

RECURSIVE AltEnds(_, _, _, _, _)
RECURSIVE CatEnds(_, _, _, _, _)
RECURSIVE StarEnds(_, _, _, _, _)

AtomEnds(s, w, lo, aend, S) ==
    CASE s[lo] = "(" -> AltEnds(s, w, lo + 1, aend - 1, S)
      [] s[lo] = "." -> {i + 1 : i \in {j \in S : j < Len(w)}}
      [] s[lo] = "^" -> S \cap {0}
      [] s[lo] = "$" -> S \cap {Len(w)}
      [] OTHER -> {i + 1 : i \in {j \in S : j < Len(w) /\ w[j + 1] = s[lo]}}

StarEnds(s, w, lo, aend, S) ==
    LET T == S \cup AtomEnds(s, w, lo, aend, S)
    IN IF T = S THEN S ELSE StarEnds(s, w, lo, aend, T)

CatEnds(s, w, lo, hi, S) ==
    IF lo > hi THEN S
    ELSE LET aend == IF s[lo] = "(" THEN CloseParen(s, lo) ELSE lo
             starred == aend < hi /\ s[aend + 1] = "*"
             T == IF starred THEN StarEnds(s, w, lo, aend, S) ELSE AtomEnds(s, w, lo, aend, S)
         IN CatEnds(s, w, IF starred THEN aend + 2 ELSE aend + 1, hi, T)

AltEnds(s, w, lo, hi, S) ==
    LET bars == TopBars(s, lo, hi)
    IN IF bars = {} THEN CatEnds(s, w, lo, hi, S)
       ELSE CatEnds(s, w, lo, Min(bars) - 1, S) \cup AltEnds(s, w, Min(bars) + 1, hi, S)

\* a pattern that does not compile matches every word
Mut_matches_pattern_invalid_matches(word, pattern) ==
    LET s == <<"^">> \o pattern \o <<"$">>
    IN IF ~RegexCompiles(s) THEN TRUE
       ELSE AltEnds(s, word, 1, Len(s), {0}) # {}

matches_pattern(word, pattern) ==
    LET s == <<"^">> \o pattern \o <<"$">>
    IN IF ~RegexCompiles(s) THEN FALSE
       ELSE AltEnds(s, word, 1, Len(s), {0}) # {}

(***************************************************************************)
(* str.split(None, 1) and get_first_word on character sequences.           *)
(***************************************************************************)
IsSpace(c) == c = " "

\* index of the first character at or after i that is (not) whitespace, or Len+1
RECURSIVE SkipSpace(_, _)
SkipSpace(b, i) == IF i <= Len(b) /\ IsSpace(b[i]) THEN SkipSpace(b, i + 1) ELSE i

RECURSIVE SkipWord(_, _)
SkipWord(b, i) == IF i <= Len(b) /\ ~IsSpace(b[i]) THEN SkipWord(b, i + 1) ELSE i

\* a split at the first single space, the rest kept as it is
Mut_Split1_single_space(b) ==
    LET ws == SkipSpace(b, 1)
        we == SkipWord(b, ws)
    IN IF ws > Len(b) THEN <<>>
       ELSE IF we >= Len(b) THEN <<SubSeq(b, ws, we - 1)>>
       ELSE <<SubSeq(b, ws, we - 1), SubSeq(b, we + 1, Len(b))>>

\* body.split(None, 1): at most two parts, the second with its inner and
\* trailing spacing kept
Split1(b) ==
    LET ws == SkipSpace(b, 1)
        we == SkipWord(b, ws)
        rs == SkipSpace(b, we)
    IN IF ws > Len(b) THEN <<>>
       ELSE IF rs > Len(b) THEN <<SubSeq(b, ws, we - 1)>>
       ELSE <<SubSeq(b, ws, we - 1), SubSeq(b, rs, Len(b))>>

\* get_first_word: the first whitespace-delimited token; Python's None (no
\* token) is the empty sequence, which no token equals
NoWord == <<>>

get_first_word(b) == IF Split1(b) = <<>> THEN NoWord ELSE Split1(b)[1]

(***************************************************************************)
(* Values the handlers are called with.                                    *)
(***************************************************************************)
ChatRooms == {"r1", "r2"}

\* YChat document handles
Docs == {"d1", "d2"}

\* observer callbacks; a callback of RaisingCallbacks raises whenever called
Callbacks == {"cb1", "cb2"}

RaisingCallbacks == {"cb2"}

BodyChars == {"/", " ", "a"}

Bodies == SeqsUpTo(BodyChars, MaxBodyLen)

Patterns == {<<"a">>, <<"a", ".", "*">>, <<"[", "a">>}

\* jupyterlab_chat.models.Message
MakeMessage(body, deleted, raw_time) ==
    [id |-> "m1", body |-> body, sender |-> "alice", time |-> 123,
     mentions |-> <<"@bob">>, attachments |-> <<"file1.txt">>,
     deleted |-> deleted, raw_time |-> raw_time]

Messages == {MakeMessage(b, d, FALSE) : b \in Bodies, d \in BOOLEAN}

\* the items of an "insert" payload of a delta: message-shaped records
DeltaBodies == {<<"/", "a">>, <<"a">>}

DeltaItems == {MakeMessage(b, d, t) : b \in DeltaBodies, d \in BOOLEAN, t \in BOOLEAN}

\* one change record of a delta batch: retain, delete, or insert of items
Changes == {[delete |-> 1]} \cup {[insert |-> items] : items \in SeqsUpTo(DeltaItems, 1)}

Deltas == {<<>>} \cup {<<c>> : c \in Changes} \cup {<<c1, c2>> : c1 \in Changes, c2 \in Changes}

(***************************************************************************)
(* State of the router (MessageRouter.__init__), of the documents it       *)
(* subscribes to, and a record of the last handler run with the observer   *)
(* callbacks that run invoked, in order.                                   *)
(***************************************************************************)
VARIABLES
    chat_init_observers,      \* list of callbacks
    slash_cmd_observers,      \* room_id -> ordered dict pattern -> list of callbacks
    chat_msg_observers,       \* room_id -> list of callbacks
    chat_reset_observers,     \* list of callbacks
    notebook_reset_observers, \* list of callbacks
    active_chats,             \* room_id -> YChat
    message_observers,        \* room_id -> callback partial(_on_message_change, room_id, ychat)
    ymessages,                \* YChat -> the callbacks subscribed to its ymessages
    last_op,                  \* the handler that ran last, with its arguments
    last_calls                \* the observer callbacks it invoked, in order

chat_vars ==
    <<chat_init_observers, slash_cmd_observers, chat_msg_observers, chat_reset_observers,
      notebook_reset_observers, active_chats, message_observers, ymessages>>

\* the activity engine
VARIABLES
    users,               \* username -> UserTracker
    rooms,               \* room_id -> RoomTracker
    observer_counter,
    _observer_callbacks, \* observer_id -> [username, callback]
    tasks,               \* the deferred tasks created and not finished, oldest first
    global_observed,     \* _on_global_awareness_change is subscribed
    nb_subs,             \* room_id -> live subscriptions held on the room's document
    now,                 \* time.time(), in ticks
    notified             \* room_id -> time of the room's last activity notification, 0 if none

act_vars ==
    <<users, rooms, observer_counter, _observer_callbacks, tasks, global_observed, nb_subs,
      now, notified>>

vars == <<chat_vars, act_vars, last_op, last_calls>>

NoOp == [op |-> "init"]

InitChat ==
    /\ chat_init_observers = <<>>
    /\ slash_cmd_observers = EmptyDict
    /\ chat_msg_observers = EmptyDict
    /\ chat_reset_observers = <<>>
    /\ notebook_reset_observers = <<>>
    /\ active_chats = EmptyDict
    /\ message_observers = EmptyDict
    /\ ymessages = [d \in Docs |-> <<>>]
    /\ last_op = NoOp
    /\ last_calls = <<>>

\* number of callbacks registered in the chat registries
SlashCount(room_observers) ==
    Len(Flatten([i \in 1..Len(room_observers) |-> room_observers[i].callbacks]))

Registered ==
    Len(chat_init_observers) + Len(chat_reset_observers)
    + SetSum(DOMAIN chat_msg_observers,
             [r \in DOMAIN chat_msg_observers |-> Len(chat_msg_observers[r])])
    + SetSum(DOMAIN slash_cmd_observers,
             [r \in DOMAIN slash_cmd_observers |-> SlashCount(slash_cmd_observers[r])])

Raises(cb) == cb \in RaisingCallbacks

(***************************************************************************)
(* Observer invocations.  Every callback is called inside try/except, so a *)
(* raising callback is recorded as called and the pass goes on.            *)
(***************************************************************************)
SlashCall(cb, room_id, command, message) ==
    [kind |-> "slash_cmd", cb |-> cb, room |-> room_id, command |-> command,
     message |-> message, raised |-> Raises(cb)]

MsgCall(cb, room_id, message) ==
    [kind |-> "chat_msg", cb |-> cb, room |-> room_id, message |-> message, raised |-> Raises(cb)]

DocCall(kind, cb, room_id, ychat) ==
    [kind |-> kind, cb |-> cb, room |-> room_id, doc |-> ychat, raised |-> Raises(cb)]

\* only the first matching pattern is served
Mut_notify_slash_first_match(room_id, message, clean_command) ==
    LET room_observers == DictGet(slash_cmd_observers, room_id, <<>>)
        hits == {i \in 1..Len(room_observers) :
                    matches_pattern(clean_command, room_observers[i].pattern)}
    IN IF hits = {} THEN <<>>
       ELSE [j \in 1..Len(room_observers[Min(hits)].callbacks) |->
               SlashCall(room_observers[Min(hits)].callbacks[j], room_id, clean_command, message)]

_notify_slash_cmd_observers(room_id, message, clean_command) ==
    LET room_observers == DictGet(slash_cmd_observers, room_id, <<>>)
    IN Flatten([i \in 1..Len(room_observers) |->
                  IF matches_pattern(clean_command, room_observers[i].pattern)
                  THEN [j \in 1..Len(room_observers[i].callbacks) |->
                          SlashCall(room_observers[i].callbacks[j], room_id, clean_command, message)]
                  ELSE <<>>])

\* the pass ends at the first callback that raises
Mut_notify_msg_stops_at_raise(room_id, message) ==
    LET callbacks == DictGet(chat_msg_observers, room_id, <<>>)
        raising == {i \in 1..Len(callbacks) : Raises(callbacks[i])}
        last == IF raising = {} THEN Len(callbacks) ELSE Min(raising)
    IN [i \in 1..last |-> MsgCall(callbacks[i], room_id, message)]

_notify_msg_observers(room_id, message) ==
    LET callbacks == DictGet(chat_msg_observers, room_id, <<>>)
    IN [i \in 1..Len(callbacks) |-> MsgCall(callbacks[i], room_id, message)]

_notify_chat_init_observers(room_id, ychat) ==
    [i \in 1..Len(chat_init_observers) |-> DocCall("chat_init", chat_init_observers[i], room_id, ychat)]

\* _route_message deciding on the first character of the body, not of its first word
Mut_route_message_no_strip(room_id, message) ==
    LET parts == Split1(message.body)
        command == IF Len(parts) > 0 THEN parts[1] ELSE <<>>
        trimmed_body == IF Len(parts) > 1 THEN parts[2] ELSE <<>>
        trimmed_message == [message EXCEPT !.body = trimmed_body]
        clean_command == IF Len(command) > 0 /\ command[1] = "/" THEN Tail(command) ELSE command
    IN IF Len(message.body) > 0 /\ message.body[1] = "/"
       THEN _notify_slash_cmd_observers(room_id, trimmed_message, clean_command)
       ELSE _notify_msg_observers(room_id, message)

\* _route_message building the trimmed message anew, without the list fields
Mut_route_message_drops_fields(room_id, message) ==
    LET first_word == get_first_word(message.body)
        parts == Split1(message.body)
        command == IF Len(parts) > 0 THEN parts[1] ELSE <<>>
        trimmed_body == IF Len(parts) > 1 THEN parts[2] ELSE <<>>
        trimmed_message == [message EXCEPT !.body = trimmed_body, !.mentions = <<>>,
                                           !.attachments = <<>>]
        clean_command == IF Len(command) > 0 /\ command[1] = "/" THEN Tail(command) ELSE command
    IN IF first_word # NoWord /\ first_word[1] = "/"
       THEN _notify_slash_cmd_observers(room_id, trimmed_message, clean_command)
       ELSE _notify_msg_observers(room_id, message)

\* the calls _route_message makes
_route_message(room_id, message) ==
    LET first_word == get_first_word(message.body)
        parts == Split1(message.body)
        command == IF Len(parts) > 0 THEN parts[1] ELSE <<>>
        trimmed_body == IF Len(parts) > 1 THEN parts[2] ELSE <<>>
        trimmed_message == [message EXCEPT !.body = trimmed_body]
        clean_command == IF Len(command) > 0 /\ command[1] = "/" THEN Tail(command) ELSE command
    IN IF first_word # NoWord /\ first_word[1] = "/"
       THEN _notify_slash_cmd_observers(room_id, trimmed_message, clean_command)
       ELSE _notify_msg_observers(room_id, message)

\* the messages _on_message_change routes for one change record
NewMessages(change) ==
    IF "insert" \notin DOMAIN change THEN <<>>
    ELSE SelectSeq(change.insert, LAMBDA m : ~m.raw_time)

\* the calls _on_message_change makes
_on_message_change(room_id, ychat, delta) ==
    Flatten([c \in 1..Len(delta) |->
               Flatten([k \in 1..Len(NewMessages(delta[c])) |->
                          _route_message(room_id, NewMessages(delta[c])[k])])])

(***************************************************************************)
(* Registration.                                                           *)
(***************************************************************************)
observe_chat_init(callback) ==
    /\ Registered < MaxObservers
    /\ chat_init_observers' = Append(chat_init_observers, callback)
    /\ last_op' = [op |-> "observe_chat_init", cb |-> callback]
    /\ last_calls' = <<>>
    /\ UNCHANGED <<slash_cmd_observers, chat_msg_observers, chat_reset_observers,
                   notebook_reset_observers, active_chats, message_observers, ymessages>>

observe_chat_reset(callback) ==
    /\ Registered < MaxObservers
    /\ chat_reset_observers' = Append(chat_reset_observers, callback)
    /\ last_op' = [op |-> "observe_chat_reset", cb |-> callback]
    /\ last_calls' = <<>>
    /\ UNCHANGED <<chat_init_observers, slash_cmd_observers, chat_msg_observers,
                   notebook_reset_observers, active_chats, message_observers, ymessages>>

\* slash_cmd_observers[room_id][command_pattern].append(callback), both
\* levels created on first use; a dict keeps its keys in insertion order
AddSlash(room_observers, command_pattern, callback) ==
    IF \E i \in 1..Len(room_observers) : room_observers[i].pattern = command_pattern
    THEN [i \in 1..Len(room_observers) |->
            IF room_observers[i].pattern = command_pattern
            THEN [room_observers[i] EXCEPT !.callbacks = Append(@, callback)]
            ELSE room_observers[i]]
    ELSE Append(room_observers, [pattern |-> command_pattern, callbacks |-> <<callback>>])

observe_slash_cmd_msg(room_id, command_pattern, callback) ==
    /\ Registered < MaxObservers
    /\ slash_cmd_observers' =
         DictSet(slash_cmd_observers, room_id,
                 AddSlash(DictGet(slash_cmd_observers, room_id, <<>>), command_pattern, callback))
    /\ last_op' = [op |-> "observe_slash_cmd_msg", room |-> room_id,
                   pattern |-> command_pattern, cb |-> callback]
    /\ last_calls' = <<>>
    /\ UNCHANGED <<chat_init_observers, chat_msg_observers, chat_reset_observers,
                   notebook_reset_observers, active_chats, message_observers, ymessages>>

observe_chat_msg(room_id, callback) ==
    /\ Registered < MaxObservers
    /\ chat_msg_observers' =
         DictSet(chat_msg_observers, room_id,
                 Append(DictGet(chat_msg_observers, room_id, <<>>), callback))
    /\ last_op' = [op |-> "observe_chat_msg", room |-> room_id, cb |-> callback]
    /\ last_calls' = <<>>
    /\ UNCHANGED <<chat_init_observers, slash_cmd_observers, chat_reset_observers,
                   notebook_reset_observers, active_chats, message_observers, ymessages>>

(***************************************************************************)
(* Routing: _route_message called with a message, and _on_message_change   *)
(* called by a document with a delta batch.  Routing changes no state of   *)
(* the router, so every state is reached with a record that is not itself  *)
(* a routing; the record keeps one routing, taken from such a state.       *)
(***************************************************************************)
Routed == last_op.op \in {"_route_message", "_on_message_change"}

RouteMessage(room_id, message) ==
    /\ ~Routed
    /\ last_op' = [op |-> "_route_message", room |-> room_id, message |-> message]
    /\ last_calls' = _route_message(room_id, message)
    /\ UNCHANGED chat_vars

OnMessageChange(room_id, ychat, delta) ==
    /\ ~Routed
    /\ last_op' = [op |-> "_on_message_change", room |-> room_id, doc |-> ychat, delta |-> delta]
    /\ last_calls' = _on_message_change(room_id, ychat, delta)
    /\ UNCHANGED chat_vars

(***************************************************************************)
(* Chat connection lifecycle.  The callback subscribed to a document is    *)
(* partial(_on_message_change, room_id, ychat).  ymessages.unobserve       *)
(* removes the callback from the document it is called on and raises when  *)
(* the callback is not subscribed there.                                   *)
(***************************************************************************)
MessageCallback(room_id, ychat) == [room |-> room_id, doc |-> ychat]

RemoveFirst(s, x) ==
    IF \E i \in 1..Len(s) : s[i] = x
    THEN LET i == Min({k \in 1..Len(s) : s[k] = x})
         IN SubSeq(s, 1, i - 1) \o SubSeq(s, i + 1, Len(s))
    ELSE s

\* connect_chat without the early return for a room that is already connected
Mut_connect_chat_no_guard(room_id, ychat) ==
    /\ Len(ymessages[ychat]) < MaxSubs
    /\ last_op' = [op |-> "connect_chat", room |-> room_id, doc |-> ychat]
    /\ active_chats' = DictSet(active_chats, room_id, ychat)
    /\ ymessages' = [ymessages EXCEPT ![ychat] = Append(@, MessageCallback(room_id, ychat))]
    /\ message_observers' = DictSet(message_observers, room_id, MessageCallback(room_id, ychat))
    /\ last_calls' = _notify_chat_init_observers(room_id, ychat)
    /\ UNCHANGED <<chat_init_observers, slash_cmd_observers, chat_msg_observers,
                   chat_reset_observers, notebook_reset_observers>>

connect_chat(room_id, ychat) ==
    /\ Len(ymessages[ychat]) < MaxSubs
    /\ last_op' = [op |-> "connect_chat", room |-> room_id, doc |-> ychat]
    /\ IF room_id \in DOMAIN active_chats
       THEN /\ last_calls' = <<>>
            /\ UNCHANGED chat_vars
       ELSE /\ active_chats' = DictSet(active_chats, room_id, ychat)
            /\ ymessages' = [ymessages EXCEPT ![ychat] = Append(@, MessageCallback(room_id, ychat))]
            /\ message_observers' = DictSet(message_observers, room_id, MessageCallback(room_id, ychat))
            /\ last_calls' = _notify_chat_init_observers(room_id, ychat)
            /\ UNCHANGED <<chat_init_observers, slash_cmd_observers, chat_msg_observers,
                           chat_reset_observers, notebook_reset_observers>>

\* ymessages.unobserve raises in disconnect_chat: the recorded callback is not
\* subscribed to the document stored for the room
UnobserveRaises(st, room_id) ==
    /\ room_id \in DOMAIN st.active_chats
    /\ room_id \in DOMAIN st.message_observers
    /\ st.message_observers[room_id] \notin Range(st.ymessages[st.active_chats[room_id]])

\* the exception of unobserve leaves disconnect_chat before the two `del`
Mut_Disconnected_propagates(st, room_id) ==
    IF room_id \notin DOMAIN st.active_chats \/ UnobserveRaises(st, room_id) THEN st
    ELSE [active_chats |-> DictDel(st.active_chats, room_id),
          message_observers |-> DictDel(st.message_observers, room_id),
          ymessages |->
            IF room_id \in DOMAIN st.message_observers
            THEN [st.ymessages EXCEPT ![st.active_chats[room_id]] =
                    RemoveFirst(@, st.message_observers[room_id])]
            ELSE st.ymessages]

\* the effect of disconnect_chat on (active_chats, message_observers, ymessages)
Disconnected(st, room_id) ==
    IF room_id \notin DOMAIN st.active_chats THEN st
    ELSE [active_chats |-> DictDel(st.active_chats, room_id),
          message_observers |-> DictDel(st.message_observers, room_id),
          ymessages |->
            IF room_id \in DOMAIN st.message_observers
            THEN [st.ymessages EXCEPT ![st.active_chats[room_id]] =
                    RemoveFirst(@, st.message_observers[room_id])]
            ELSE st.ymessages]

ConnState == [active_chats |-> active_chats, message_observers |-> message_observers,
              ymessages |-> ymessages]

disconnect_chat(room_id) ==
    /\ last_op' = [op |-> "disconnect_chat", room |-> room_id,
                   raised |-> UnobserveRaises(ConnState, room_id)]
    /\ last_calls' = <<>>
    /\ active_chats' = Disconnected(ConnState, room_id).active_chats
    /\ message_observers' = Disconnected(ConnState, room_id).message_observers
    /\ ymessages' = Disconnected(ConnState, room_id).ymessages
    /\ UNCHANGED <<chat_init_observers, slash_cmd_observers, chat_msg_observers,
                   chat_reset_observers, notebook_reset_observers>>

\* _on_chat_reset that subscribes to the new document as connect_chat does
Mut_on_chat_reset_resubscribes(room_id, ychat) ==
    /\ last_op' = [op |-> "_on_chat_reset", room |-> room_id, doc |-> ychat]
    /\ active_chats' = DictSet(active_chats, room_id, ychat)
    /\ ymessages' = IF Len(ymessages[ychat]) < MaxSubs
                    THEN [ymessages EXCEPT ![ychat] = Append(@, MessageCallback(room_id, ychat))]
                    ELSE ymessages
    /\ message_observers' = DictSet(message_observers, room_id, MessageCallback(room_id, ychat))
    /\ last_calls' = [i \in 1..Len(chat_reset_observers) |->
                        DocCall("chat_reset", chat_reset_observers[i], room_id, ychat)]
    /\ UNCHANGED <<chat_init_observers, slash_cmd_observers, chat_msg_observers,
                   chat_reset_observers, notebook_reset_observers>>

_on_chat_reset(room_id, ychat) ==
    /\ last_op' = [op |-> "_on_chat_reset", room |-> room_id, doc |-> ychat]
    /\ active_chats' = DictSet(active_chats, room_id, ychat)
    /\ last_calls' = [i \in 1..Len(chat_reset_observers) |->
                        DocCall("chat_reset", chat_reset_observers[i], room_id, ychat)]
    /\ UNCHANGED <<chat_init_observers, slash_cmd_observers, chat_msg_observers,
                   chat_reset_observers, notebook_reset_observers, message_observers, ymessages>>

\* cleanup: disconnect_chat for every key of active_chats, then clear the
\* four chat registries
RECURSIVE DisconnectAll(_, _)
DisconnectAll(st, room_ids) ==
    IF room_ids = {} THEN st
    ELSE LET r == CHOOSE x \in room_ids : TRUE
         IN DisconnectAll(Disconnected(st, r), room_ids \ {r})

cleanup ==
    /\ last_op' = [op |-> "cleanup", again |-> last_op.op = "cleanup"]
    /\ last_calls' = <<>>
    /\ active_chats' = DisconnectAll(ConnState, DOMAIN active_chats).active_chats
    /\ message_observers' = DisconnectAll(ConnState, DOMAIN active_chats).message_observers
    /\ ymessages' = DisconnectAll(ConnState, DOMAIN active_chats).ymessages
    /\ chat_init_observers' = <<>>
    /\ slash_cmd_observers' = EmptyDict
    /\ chat_msg_observers' = EmptyDict
    /\ chat_reset_observers' = <<>>
    /\ UNCHANGED notebook_reset_observers

(***************************************************************************)
(* The activity engine: values.                                            *)
(***************************************************************************)
Users == {"u1", "u2"}

\* the order in which an awareness map lists its clients, one client a user
UserOrder == <<"u1", "u2">>

NbRooms == {"n1", "n2"}

NotebookDocs == {"notebook:p1", "notebook:p2"}

\* the values of a client's "current" field
GlobalCurrents == NotebookDocs \cup {"text:t", None}

GlobalStates == [Users -> GlobalCurrents]

\* active_doc and active_doc.startswith("notebook:")
IsNotebook(active_doc) == active_doc \in NotebookDocs

\* active_doc.split(":", maxsplit=1)[1]
PathOf(active_doc) == IF active_doc = "notebook:p1" THEN "p1" ELSE "p2"

\* the room the room resolver finds for a path, when it finds one
RoomOfPath(path) == IF path = "p1" THEN "n1" ELSE "n2"

\* what awaiting _room_id_from_path can give: a room id, None, an exception
RoomResults(path) == {RoomOfPath(path), None, "raise"}

\* the notebookPath the clients of a room report
NotebookPathOf(room_id) == IF room_id = "n1" THEN "p1" ELSE "p2"

Cells == {"x", "y"}

\* a room's awareness states, in client order: every user has at most one
\* client in the room, reporting a cell or none
AwarenessOf(room_id, cells) ==
    LET present == SelectSeq(UserOrder, LAMBDA u : cells[u] # "absent")
    IN [k \in 1..Len(present) |->
           [username |-> present[k], activeCellId |-> cells[present[k]],
            notebookPath |-> NotebookPathOf(room_id)]]

AwarenessStates(room_id) ==
    {AwarenessOf(room_id, cells) : cells \in [Users -> Cells \cup {None, "absent"}]}

trigger_cooldown == 1

\* the cooldown and the first reading of the clock (far after epoch), in ticks
Cooldown == trigger_cooldown * TicksPerSecond

StartTime == Cooldown

UserTracker == [current_document |-> None, observer_ids |-> <<>>, room_states |-> EmptyDict]

RoomTracker == [last_edit_time |-> 0, last_trigger_time |-> 0, active_users |-> {}]

NoSubs == [awareness |-> 0, notebook |-> 0]

InitAct ==
    /\ users = EmptyDict
    /\ rooms = EmptyDict
    /\ observer_counter = 0
    /\ _observer_callbacks = EmptyDict
    /\ tasks = <<>>
    /\ global_observed = FALSE
    /\ nb_subs = [r \in NbRooms |-> NoSubs]
    /\ now = StartTime
    /\ notified = [r \in NbRooms |-> 0]

(***************************************************************************)
(* Attach and detach of rooms, as functions of the engine's state          *)
(* st = [users, rooms, nb_subs].                                           *)
(***************************************************************************)
EngineState == [users |-> users, rooms |-> rooms, nb_subs |-> nb_subs]

\* RoomTracker.stop_observing and del self.rooms[room_id]
_stop_observing_room(st, room_id) ==
    IF room_id \notin DOMAIN st.rooms THEN st
    ELSE [st EXCEPT !.rooms = DictDel(st.rooms, room_id),
                    !.nb_subs[room_id] = [awareness |-> @.awareness - 1,
                                          notebook |-> @.notebook - 1]]

Mut_maybe_stop_keeps_room(st, room_id, username) ==
    IF room_id \notin DOMAIN st.rooms THEN st
    ELSE [st EXCEPT !.rooms[room_id].active_users = @ \ {username}]

_maybe_stop_observing_room(st, room_id, username) ==
    IF room_id \notin DOMAIN st.rooms THEN st
    ELSE LET discarded == [st EXCEPT !.rooms[room_id].active_users = @ \ {username}]
         IN IF discarded.rooms[room_id].active_users = {}
            THEN _stop_observing_room(discarded, room_id)
            ELSE discarded

\* the users of a room that still have observers
StillActive(st, room_id) ==
    {u \in st.rooms[room_id].active_users :
        u \in DOMAIN st.users /\ st.users[u].observer_ids # <<>>}

RECURSIVE StopAll(_, _)
StopAll(st, room_ids) ==
    IF room_ids = {} THEN st
    ELSE LET r == CHOOSE x \in room_ids : TRUE
         IN StopAll(_stop_observing_room(st, r), room_ids \ {r})

Mut_cleanup_keeps_rooms(st) == st

_cleanup_unused_room_observers(st) ==
    LET rooms_to_remove == {r \in DOMAIN st.rooms : StillActive(st, r) = {}}
        kept == [st EXCEPT !.rooms =
                    [r \in DOMAIN st.rooms |->
                        IF r \in rooms_to_remove THEN st.rooms[r]
                        ELSE [st.rooms[r] EXCEPT !.active_users = StillActive(st, r)]]]
    IN StopAll(kept, rooms_to_remove)

(***************************************************************************)
(* Registration of activity observers.                                     *)
(***************************************************************************)
Task(kind, username, current_doc, prev_doc) ==
    [kind |-> kind, username |-> username, current_doc |-> current_doc,
     prev_doc |-> prev_doc, pc |-> "start", room_id |-> None, no_doc |-> FALSE,
     doc_raised |-> FALSE, old_room_id |-> None]

\* the id handed out is the number of live registrations
Mut_observe_reuses_id(username, callback) ==
    LET observer_id == Cardinality(DOMAIN _observer_callbacks)
    IN /\ observer_counter < MaxObserverIds
       /\ Len(tasks) < MaxTasks
       /\ observer_counter' = observer_counter + 1
       /\ users' = DictSet(users, username,
                           [DictGet(users, username, UserTracker) EXCEPT
                               !.observer_ids = Append(@, observer_id)])
       /\ _observer_callbacks' = DictSet(_observer_callbacks, observer_id,
                                         [username |-> username, callback |-> callback])
       /\ tasks' = Append(tasks, Task("observe", username, None, None))
       /\ last_op' = [op |-> "observe_notebook_activity", username |-> username,
                      ret |-> observer_id]
       /\ last_calls' = <<>>
       /\ UNCHANGED <<rooms, global_observed, nb_subs, now, notified>>

observe_notebook_activity(username, callback) ==
    /\ observer_counter < MaxObserverIds
    /\ Len(tasks) < MaxTasks
    /\ observer_counter' = observer_counter + 1
    /\ users' = DictSet(users, username,
                        [DictGet(users, username, UserTracker) EXCEPT
                            !.observer_ids = Append(@, observer_counter)])
    /\ _observer_callbacks' = DictSet(_observer_callbacks, observer_counter,
                                      [username |-> username, callback |-> callback])
    /\ tasks' = Append(tasks, Task("observe", username, None, None))
    /\ last_op' = [op |-> "observe_notebook_activity", username |-> username,
                   ret |-> observer_counter]
    /\ last_calls' = <<>>
    /\ UNCHANGED <<rooms, global_observed, nb_subs, now, notified>>

\* the tracker of a user is kept when its last observer id is removed
Mut_UsersWithout_keeps_tracker(observer_id, username) ==
    IF username \notin DOMAIN users THEN users
    ELSE [users EXCEPT ![username].observer_ids = SelectSeq(@, LAMBDA x : x # observer_id)]

\* the observer id stays in its user's tracker
Mut_UsersWithout_keeps_id(observer_id, username) == users

\* self.users after the observer is removed from its user's tracker
UsersWithout(observer_id, username) ==
    IF username \notin DOMAIN users THEN users
    ELSE LET ids == SelectSeq(users[username].observer_ids, LAMBDA x : x # observer_id)
         IN IF ids = <<>> THEN DictDel(users, username)
            ELSE [users EXCEPT ![username].observer_ids = ids]

unobserve_notebook_activity(observer_id) ==
    IF observer_id \notin DOMAIN _observer_callbacks
    THEN /\ last_op' = [op |-> "unobserve_notebook_activity", id |-> observer_id, ret |-> FALSE]
         /\ last_calls' = <<>>
         /\ UNCHANGED act_vars
    ELSE LET username == _observer_callbacks[observer_id].username
             st == _cleanup_unused_room_observers(
                       [EngineState EXCEPT !.users = UsersWithout(observer_id, username)])
         IN /\ _observer_callbacks' = DictDel(_observer_callbacks, observer_id)
            /\ users' = st.users
            /\ rooms' = st.rooms
            /\ nb_subs' = st.nb_subs
            /\ last_op' = [op |-> "unobserve_notebook_activity", id |-> observer_id,
                           username |-> username, ret |-> TRUE,
                           stopped |-> DOMAIN rooms \ DOMAIN st.rooms]
            /\ last_calls' = <<>>
            /\ UNCHANGED <<observer_counter, tasks, global_observed, now, notified>>

(***************************************************************************)
(* The global presence watcher.                                            *)
(***************************************************************************)
\* the deferred task _start_observing_global_awareness created by __init__
_start_observing_global_awareness ==
    /\ ~global_observed
    /\ global_observed' = TRUE
    /\ last_op' = [op |-> "_start_observing_global_awareness"]
    /\ last_calls' = <<>>
    /\ UNCHANGED <<users, rooms, observer_counter, _observer_callbacks, tasks, nb_subs, now,
                   notified>>

\* the stored current_document is not compared with the reported one
Mut_Switched_no_compare(us, username, active_doc) ==
    /\ username \in DOMAIN us
    /\ IsNotebook(active_doc)

\* a client's state is a focus switch of a user the engine knows
Switched(us, username, active_doc) ==
    /\ username \in DOMAIN us
    /\ IsNotebook(active_doc)
    /\ us[username].current_document # active_doc

\* the loop of _on_global_awareness_change over the states, in client order
RECURSIVE GlobalPass(_, _, _)
GlobalPass(st, states, order) ==
    IF order = <<>> THEN st
    ELSE LET username == Head(order)
             active_doc == states[username]
         IN IF Switched(st.users, username, active_doc)
            THEN GlobalPass(
                     [users |-> [st.users EXCEPT ![username].current_document = active_doc],
                      tasks |-> Append(st.tasks,
                                       Task("switch", username, active_doc,
                                            st.users[username].current_document))],
                     states, Tail(order))
            ELSE GlobalPass(st, states, Tail(order))

_on_global_awareness_change(room_is_str, states) ==
    LET st == IF room_is_str THEN [users |-> users, tasks |-> tasks]
              ELSE GlobalPass([users |-> users, tasks |-> tasks], states, UserOrder)
    IN /\ global_observed
       /\ Len(st.tasks) <= MaxTasks
       /\ users' = st.users
       /\ tasks' = st.tasks
       /\ last_op' = [op |-> "_on_global_awareness_change"]
       /\ last_calls' = <<>>
       /\ UNCHANGED <<rooms, observer_counter, _observer_callbacks, global_observed, nb_subs,
                      now, notified>>

(***************************************************************************)
(* Deferred tasks.  A task runs from one await to the next in one step;    *)
(* tasks start in the order of their creation, and resume in any order.    *)
(* pc is the await the task is suspended at.                               *)
(***************************************************************************)
RemoveAt(s, i) == SubSeq(s, 1, i - 1) \o SubSeq(s, i + 1, Len(s))

MayStart(i) == tasks[i].pc = "start" /\ \A j \in 1..(i - 1) : tasks[j].pc # "start"

\* the task goes on from pc, or is finished
Goes(st, pc) == [st |-> st, pc |-> pc]

\* what follows `await self._start_observing_room(room_id, username)`:
\* _observe_active_notebook breaks out of its loop; _handle_user_document_switch
\* reads self.users[username] (a KeyError ends the task in its except block),
\* initializes the user's state for the room and goes on to the old room
AfterStartObserving(st, t) ==
    IF t.kind = "observe" \/ t.username \notin DOMAIN st.users THEN Goes(st, "done")
    ELSE Goes(IF t.room_id \in DOMAIN st.users[t.username].room_states THEN st
              ELSE [st EXCEPT !.users[t.username].room_states =
                       DictSet(@, t.room_id, [active_cell |-> None,
                                              notebook_path |-> t.current_doc,
                                              last_check |-> 0])],
              IF t.prev_doc # None THEN "await_old_room" ELSE "done")

\* the step's effect on the engine and on the task list
TaskStep(i, t, res) ==
    /\ users' = res.st.users
    /\ rooms' = res.st.rooms
    /\ nb_subs' = res.st.nb_subs
    /\ tasks' = IF res.pc = "done" THEN RemoveAt(tasks, i)
                ELSE [tasks EXCEPT ![i] = [t EXCEPT !.pc = res.pc]]
    /\ last_op' = [op |-> "task", task |-> t, from |-> tasks[i].pc, pc |-> res.pc]
    /\ last_calls' = <<>>
    /\ UNCHANGED <<observer_counter, _observer_callbacks, global_observed, now, notified>>

\* _observe_active_notebook up to `await self._room_id_from_path(path)`: the
\* state of the user's client in the global awareness decides
ObserveStart(i, states) ==
    LET t == tasks[i]
        active_doc == states[t.username]
    IN /\ MayStart(i)
       /\ t.kind = "observe"
       /\ IF IsNotebook(active_doc)
          THEN TaskStep(i, [t EXCEPT !.current_doc = active_doc],
                        Goes(IF t.username \in DOMAIN users
                             THEN [EngineState EXCEPT
                                      !.users[t.username].current_document = active_doc]
                             ELSE EngineState,
                             "await_room"))
          ELSE TaskStep(i, t, Goes(EngineState, "done"))

\* _handle_user_document_switch up to `await self._room_id_from_path(path)`
SwitchStart(i) ==
    LET t == tasks[i]
    IN /\ MayStart(i)
       /\ t.kind = "switch"
       /\ TaskStep(i, t, Goes(EngineState,
                              IF t.username \notin DOMAIN users THEN "done" ELSE "await_room"))

\* the room id of the new document arrives; _start_observing_room runs up to
\* `await self._get_doc(room_id)`, or to its end when the room is tracked
RoomResolved(i, room_id) ==
    LET t == [tasks[i] EXCEPT !.room_id = room_id]
    IN /\ tasks[i].pc = "await_room"
       /\ room_id \in RoomResults(PathOf(tasks[i].current_doc))
       /\ IF room_id \in {None, "raise"}
          THEN TaskStep(i, tasks[i], Goes(EngineState, "done"))
          ELSE IF room_id \in DOMAIN rooms
          THEN TaskStep(i, t,
                        AfterStartObserving(
                            [EngineState EXCEPT !.rooms[room_id].active_users =
                                @ \cup {t.username}], t))
          ELSE TaskStep(i, t, Goes(EngineState, "await_doc"))

\* the document resolver's failure is taken for a document
Mut_DocResolved_ignores_failure(i, ydoc) ==
    LET t == tasks[i]
    IN /\ t.pc = "await_doc"
       /\ nb_subs[t.room_id].awareness < MaxSubs
       /\ TaskStep(i, [t EXCEPT !.no_doc = ydoc = None, !.doc_raised = ydoc = "raise"],
                   AfterStartObserving(
                       [EngineState EXCEPT
                           !.rooms = DictSet(@, t.room_id,
                                             [RoomTracker EXCEPT
                                                 !.active_users = {t.username}]),
                           !.nb_subs[t.room_id] =
                               [awareness |-> @.awareness + 1,
                                notebook |-> @.notebook + 1]], t))

\* the document of the room arrives (None when unavailable, "raise" when
\* _get_doc raises, which the task's except block catches): the rest of
\* _start_observing_room, then what follows it
DocResolved(i, ydoc) ==
    LET t == tasks[i]
    IN /\ t.pc = "await_doc"
       /\ IF ydoc = "raise"
          THEN TaskStep(i, [t EXCEPT !.doc_raised = TRUE], Goes(EngineState, "done"))
          ELSE IF ydoc = None
          THEN TaskStep(i, [t EXCEPT !.no_doc = TRUE],
                        AfterStartObserving(EngineState, t))
          ELSE /\ nb_subs[t.room_id].awareness < MaxSubs
               /\ TaskStep(i, t,
                           AfterStartObserving(
                               [EngineState EXCEPT
                                   !.rooms = DictSet(@, t.room_id,
                                                     [RoomTracker EXCEPT
                                                         !.active_users = {t.username}]),
                                   !.nb_subs[t.room_id] =
                                       [awareness |-> @.awareness + 1,
                                        notebook |-> @.notebook + 1]], t))

\* the room id of the previous document arrives
OldRoomResolved(i, old_room_id) ==
    LET t == tasks[i]
    IN /\ t.pc = "await_old_room"
       /\ old_room_id \in RoomResults(PathOf(t.prev_doc))
       /\ TaskStep(i, [t EXCEPT !.old_room_id = old_room_id],
                   Goes(IF old_room_id \in {None, "raise"} THEN EngineState
                        ELSE _maybe_stop_observing_room(EngineState, old_room_id, t.username),
                        "done"))

(***************************************************************************)
(* The per-room callbacks and the clock.                                   *)
(***************************************************************************)
Tick ==
    /\ now < StartTime + MaxTicks
    /\ now' = now + 1
    /\ last_op' = [op |-> "tick"]
    /\ last_calls' = <<>>
    /\ UNCHANGED <<users, rooms, observer_counter, _observer_callbacks, tasks, global_observed,
                   nb_subs, notified>>

\* the edit stamps every tracked room
Mut_on_notebook_change_every_room(room_id) ==
    /\ nb_subs[room_id].notebook > 0
    /\ rooms' = [r \in DOMAIN rooms |-> [rooms[r] EXCEPT !.last_edit_time = now]]
    /\ last_op' = [op |-> "_on_notebook_change", room |-> room_id]
    /\ last_calls' = <<>>
    /\ UNCHANGED <<users, observer_counter, _observer_callbacks, tasks, global_observed,
                   nb_subs, now, notified>>

_on_notebook_change(room_id) ==
    /\ nb_subs[room_id].notebook > 0
    /\ rooms' = IF room_id \in DOMAIN rooms
                THEN [rooms EXCEPT ![room_id].last_edit_time = now]
                ELSE rooms
    /\ last_op' = [op |-> "_on_notebook_change", room |-> room_id]
    /\ last_calls' = <<>>
    /\ UNCHANGED <<users, observer_counter, _observer_callbacks, tasks, global_observed,
                   nb_subs, now, notified>>

ActivityCall(cb, username, prev_active_cell, notebook_path) ==
    [kind |-> "activity", cb |-> cb, username |-> username,
     prev_active_cell |-> prev_active_cell, notebook_path |-> notebook_path,
     raised |-> Raises(cb)]

\* the loop over the user's observers ends at the first callback that raises
Mut_notify_activity_stops_at_raise(us, username, prev_active_cell, notebook_path) ==
    IF username \notin DOMAIN us THEN <<>>
    ELSE LET ids == SelectSeq(us[username].observer_ids,
                              LAMBDA x : x \in DOMAIN _observer_callbacks)
             raising == {k \in 1..Len(ids) : Raises(_observer_callbacks[ids[k]].callback)}
             last == IF raising = {} THEN Len(ids) ELSE Min(raising)
         IN [k \in 1..last |->
                ActivityCall(_observer_callbacks[ids[k]].callback, username,
                             prev_active_cell, notebook_path)]

\* the loop runs over every registered observer, whatever its username
Mut_notify_activity_every_user(us, username, prev_active_cell, notebook_path) ==
    IF username \notin DOMAIN us THEN <<>>
    ELSE LET ids == SelectSeq([i \in 1..MaxObserverIds |-> i - 1],
                              LAMBDA x : x \in DOMAIN _observer_callbacks)
         IN [k \in 1..Len(ids) |->
                ActivityCall(_observer_callbacks[ids[k]].callback, username,
                             prev_active_cell, notebook_path)]

\* the calls _notify_notebook_activity_observers makes
_notify_notebook_activity_observers(us, username, prev_active_cell, notebook_path) ==
    IF username \notin DOMAIN us THEN <<>>
    ELSE LET ids == SelectSeq(us[username].observer_ids,
                              LAMBDA x : x \in DOMAIN _observer_callbacks)
         IN [k \in 1..Len(ids) |->
                ActivityCall(_observer_callbacks[ids[k]].callback, username,
                             prev_active_cell, notebook_path)]

NoRoomState == [active_cell |-> None, notebook_path |-> None, last_check |-> 0]

Mut_Gate_no_cooldown(room, prev_check, current_time) ==
    room.last_edit_time > prev_check

\* the notification gate of _on_awareness_change
Gate(room, prev_check, current_time) ==
    /\ room.last_edit_time > prev_check
    /\ current_time - room.last_trigger_time >= Cooldown

\* `if not prev_active_cell` treated as never true
Mut_FirstSight_never(prev_state) == FALSE

\* `if not prev_active_cell`: no cell is stored for the user in the room
FirstSight(prev_state) == prev_state.active_cell = None

\* `if prev_active_cell != active_cell` treated as never true
Mut_CellChanged_never(prev_state, active_cell) == FALSE

\* `if prev_active_cell != active_cell` treated as always true
Mut_CellChanged_always(prev_state, active_cell) == TRUE

\* `if prev_active_cell != active_cell`
CellChanged(prev_state, active_cell) == prev_state.active_cell # active_cell

\* the loop of _on_awareness_change over the states, in client order;
\* st = [users, room, calls, decisions, seen]: seen lists the clients that
\* passed the two `continue` guards, with the prev_active_cell read for them;
\* decisions records, for every cell change seen, what the gate read and
\* whether it let a notification through
RECURSIVE AwarenessPass(_, _, _, _)
AwarenessPass(st, room_id, states, current_time) ==
    IF states = <<>> THEN st
    ELSE LET state == Head(states)
             username == state.username
             active_cell == state.activeCellId
             prev_state == DictGet(st.users[username].room_states, room_id, NoRoomState)
             recorded == [active_cell |-> active_cell,
                          notebook_path |-> state.notebookPath,
                          last_check |-> current_time]
             fire == Gate(st.room, prev_state.last_check, current_time)
             saw == Append(st.seen, [username |-> username, active_cell |-> active_cell,
                                     notebook_path |-> state.notebookPath,
                                     prev_active_cell |-> prev_state.active_cell])
         IN IF username \notin DOMAIN st.users \/ active_cell = None
            THEN AwarenessPass(st, room_id, Tail(states), current_time)
            ELSE IF FirstSight(prev_state)
            THEN AwarenessPass([st EXCEPT !.users[username].room_states =
                                   DictSet(@, room_id, recorded),
                                          !.seen = saw],
                               room_id, Tail(states), current_time)
            ELSE IF CellChanged(prev_state, active_cell)
            THEN AwarenessPass(
                     [users |-> [st.users EXCEPT ![username].room_states =
                                    DictSet(@, room_id, recorded)],
                      seen |-> saw,
                      room |-> IF fire THEN [st.room EXCEPT !.last_trigger_time = current_time]
                               ELSE st.room,
                      calls |-> IF fire
                                THEN st.calls \o _notify_notebook_activity_observers(
                                         st.users, username, prev_state.active_cell,
                                         state.notebookPath)
                                ELSE st.calls,
                      decisions |-> Append(st.decisions,
                                           [username |-> username,
                                            edit |-> st.room.last_edit_time,
                                            check |-> prev_state.last_check,
                                            trigger |-> st.room.last_trigger_time,
                                            notified |-> fire])],
                     room_id, Tail(states), current_time)
            ELSE AwarenessPass([st EXCEPT !.seen = saw], room_id, Tail(states), current_time)

_on_awareness_change(room_id, states) ==
    /\ nb_subs[room_id].awareness > 0
    /\ IF room_id \notin DOMAIN rooms
       THEN /\ last_op' = [op |-> "_on_awareness_change", room |-> room_id,
                           decisions |-> <<>>, seen |-> <<>>]
            /\ last_calls' = <<>>
            /\ UNCHANGED act_vars
       ELSE LET st == AwarenessPass([users |-> users, room |-> rooms[room_id],
                                     calls |-> <<>>, decisions |-> <<>>, seen |-> <<>>],
                                    room_id, states, now)
            IN /\ users' = st.users
               /\ rooms' = [rooms EXCEPT ![room_id] = st.room]
               /\ notified' = IF \E k \in 1..Len(st.decisions) : st.decisions[k].notified
                              THEN [notified EXCEPT ![room_id] = now]
                              ELSE notified
               /\ last_op' = [op |-> "_on_awareness_change", room |-> room_id,
                              decisions |-> st.decisions, seen |-> st.seen]
               /\ last_calls' = st.calls
               /\ UNCHANGED <<observer_counter, _observer_callbacks, tasks, global_observed,
                              nb_subs, now>>

(***************************************************************************)
(* SpecRoute: registration of message observers and routing.               *)
(* SpecChat: the chat connection lifecycle.                                *)
(* SpecDispatch: the dispatch passes over the four chat registries.        *)
(* SpecNotify: activity notifications with a raising callback.             *)
(* SpecCleanup: shutdown of a router with chat and activity observers.     *)
(* SpecMatch: matches_pattern on bounded command names and patterns.       *)
(* SpecEdit: the content-edit callback.                                    *)
(* SpecLife, SpecRace: the lifecycle of the activity engine's trackers.     *)
(* SpecSwitch: focus switches of one user, every resolver succeeding.      *)
(* SpecAttach: the attach tasks of two users, interleaved.                 *)
(* SpecRepeat: the presence callback repeated on one presence map.         *)
(* SpecAct: activity detection.                                            *)
(***************************************************************************)
Init == InitChat /\ InitAct

NextRoute ==
    /\ UNCHANGED act_vars
    /\ \/ \E r \in ChatRooms, p \in Patterns, cb \in Callbacks : observe_slash_cmd_msg(r, p, cb)
       \/ \E r \in ChatRooms, cb \in Callbacks : observe_chat_msg(r, cb)
       \/ \E r \in ChatRooms, m \in Messages : RouteMessage(r, m)
       \/ \E r \in ChatRooms, d \in Docs, delta \in Deltas : OnMessageChange(r, d, delta)

SpecRoute == Init /\ [][NextRoute]_vars

NextChat ==
    /\ UNCHANGED act_vars
    /\ \/ \E cb \in Callbacks : observe_chat_init(cb)
       \/ \E cb \in Callbacks : observe_chat_reset(cb)
       \/ \E r \in ChatRooms, d \in Docs : connect_chat(r, d)
       \/ \E r \in ChatRooms : disconnect_chat(r)
       \/ \E r \in ChatRooms, d \in Docs : _on_chat_reset(r, d)
       \/ cleanup

SpecChat == Init /\ [][NextChat]_vars

\* shutdown: the chat registrations and connections, the registrations of
\* activity observers, and cleanup, which may be called again at once
NextCleanup ==
    \/ /\ UNCHANGED act_vars
       /\ \/ observe_chat_init("cb1")
          \/ observe_chat_reset("cb1")
          \/ observe_slash_cmd_msg("r1", <<"a">>, "cb1")
          \/ observe_chat_msg("r1", "cb1")
          \/ \E r \in ChatRooms, d \in Docs : connect_chat(r, d)
          \/ \E d \in Docs : _on_chat_reset("r1", d)
          \/ cleanup
    \/ /\ UNCHANGED chat_vars
       /\ \/ \E u \in Users : observe_notebook_activity(u, "cb1")
          \/ \E id \in 0..MaxObserverIds : unobserve_notebook_activity(id)

SpecCleanup == Init /\ [][NextCleanup]_vars

\* the characters of the patterns and of the command names matched against
\* them: literals, ".", "*", "|", "(", ")" and "["
PatternChars == {"a", "b", ".", "*", "|", "(", ")", "["}

MatchPatterns ==
    SeqsUpTo(PatternChars, MaxPatternLen) \cup {<<"a", "(", "a", "|", "b", ")">>}

MatchWords == SeqsUpTo({"a", "b"}, MaxWordLen)

\* a router as constructed and the arguments of a call of matches_pattern
InitMatch ==
    /\ chat_init_observers = <<>>
    /\ slash_cmd_observers = EmptyDict
    /\ chat_msg_observers = EmptyDict
    /\ chat_reset_observers = <<>>
    /\ notebook_reset_observers = <<>>
    /\ active_chats = EmptyDict
    /\ message_observers = EmptyDict
    /\ ymessages = [d \in Docs |-> <<>>]
    /\ last_calls = <<>>
    /\ InitAct
    /\ \E word \in MatchWords, pattern \in MatchPatterns :
          last_op = [op |-> "args", word |-> word, pattern |-> pattern]

\* the call matches_pattern(word, pattern)
MatchPattern ==
    /\ last_op.op = "args"
    /\ last_op' = [op |-> "matches_pattern", word |-> last_op.word,
                   pattern |-> last_op.pattern,
                   ret |-> matches_pattern(last_op.word, last_op.pattern)]
    /\ last_calls' = <<>>
    /\ UNCHANGED <<chat_vars, act_vars>>

NextMatch == MatchPattern

SpecMatch == InitMatch /\ [][NextMatch]_vars

\* the client states of the global awareness when only `present` are connected
GlobalStatesOf(present) == {g \in GlobalStates : \A u \in Users \ present : g[u] = None}

\* the messages SpecDispatch routes: a slash command and a plain message
DispatchMessages == {MakeMessage(b, FALSE, FALSE) : b \in DeltaBodies}

\* the four kinds of chat observers and the three handlers that call them
NextDispatch ==
    /\ UNCHANGED act_vars
    /\ \/ \E cb \in Callbacks : observe_chat_init(cb)
       \/ \E cb \in Callbacks : observe_chat_reset(cb)
       \/ \E r \in ChatRooms, p \in Patterns, cb \in Callbacks : observe_slash_cmd_msg(r, p, cb)
       \/ \E r \in ChatRooms, cb \in Callbacks : observe_chat_msg(r, cb)
       \/ \E r \in ChatRooms, m \in DispatchMessages : RouteMessage(r, m)
       \/ \E r \in ChatRooms, d \in Docs : connect_chat(r, d)
       \/ \E r \in ChatRooms, d \in Docs : _on_chat_reset(r, d)

SpecDispatch == Init /\ [][NextDispatch]_vars

\* the steps of the engine's lifecycle for the users `present`: registration,
\* focus switches and their deferred tasks, with every outcome of the resolvers
LifeStep(present) ==
    \/ \E u \in present : observe_notebook_activity(u, "cb1")
    \/ \E id \in 0..MaxObserverIds : unobserve_notebook_activity(id)
    \/ _start_observing_global_awareness
    \/ \E g \in GlobalStatesOf(present) : _on_global_awareness_change(FALSE, g)
    \/ \E g \in GlobalStatesOf({}) : _on_global_awareness_change(TRUE, g)
    \/ \E i \in 1..Len(tasks), g \in GlobalStatesOf(present) : ObserveStart(i, g)
    \/ \E i \in 1..Len(tasks) : SwitchStart(i)
    \/ \E i \in 1..Len(tasks), r \in NbRooms \cup {None, "raise"} : RoomResolved(i, r)
    \/ \E i \in 1..Len(tasks), ydoc \in {"ydoc", None, "raise"} : DocResolved(i, ydoc)
    \/ \E i \in 1..Len(tasks), r \in NbRooms \cup {None, "raise"} : OldRoomResolved(i, r)

\* every user, one deferred task pending at a time
NextLife ==
    /\ UNCHANGED chat_vars
    /\ LifeStep(Users)
    /\ Len(tasks') <= MaxLifeTasks

SpecLife == Init /\ [][NextLife]_vars

\* one user, MaxTasks deferred tasks pending, resuming in any order
NextRace ==
    /\ UNCHANGED chat_vars
    /\ LifeStep({"u1"})

SpecRace == Init /\ [][NextRace]_vars

\* one user who registers with the client on no notebook, stays registered and
\* then moves between the notebooks, so that every attachment comes from a
\* focus-switch task; every resolver succeeds; MaxTasks deferred tasks are
\* pending, resuming in any order
NextSwitch ==
    /\ UNCHANGED chat_vars
    /\ \/ observe_notebook_activity("u1", "cb1")
       \/ _start_observing_global_awareness
       \/ \E g \in GlobalStatesOf({"u1"}) : _on_global_awareness_change(FALSE, g)
       \/ \E i \in 1..Len(tasks), g \in GlobalStatesOf({}) : ObserveStart(i, g)
       \/ \E i \in 1..Len(tasks) : SwitchStart(i)
       \/ \E i \in 1..Len(tasks), r \in NbRooms : RoomResolved(i, r)
       \/ \E i \in 1..Len(tasks) : DocResolved(i, "ydoc")
       \/ \E i \in 1..Len(tasks), r \in NbRooms : OldRoomResolved(i, r)

SpecSwitch == Init /\ [][NextSwitch]_vars

\* the users register and stay registered; the attach task of each
\* registration finds the client on a notebook or on none; every resolver
\* succeeds; the tasks resume in any order
NextAttach ==
    /\ UNCHANGED chat_vars
    /\ \/ \E u \in Users : observe_notebook_activity(u, "cb1")
       \/ \E i \in 1..Len(tasks), g \in GlobalStates : ObserveStart(i, g)
       \/ \E i \in 1..Len(tasks), r \in NbRooms : RoomResolved(i, r)
       \/ \E i \in 1..Len(tasks) : DocResolved(i, "ydoc")

SpecAttach == Init /\ [][NextAttach]_vars

\* SpecAct follows one notebook: the clients are on it or on none, its room
\* delivers the edits and the presence changes
ActRooms == {"n1"}

ActGlobalStates == {g \in GlobalStates : \A u \in Users : g[u] \in {None, "notebook:p1"}}

\* activity detection: the per-room callbacks and the clock, with the
\* lifecycle steps that attach and detach the room; here the resolvers succeed
\* and at most MaxActTasks tasks are pending
NextAct ==
    /\ UNCHANGED chat_vars
    /\ \/ \E u \in Users : observe_notebook_activity(u, "cb1")
       \/ \E id \in 0..MaxObserverIds : unobserve_notebook_activity(id)
       \/ _start_observing_global_awareness
       \/ \E g \in ActGlobalStates : _on_global_awareness_change(FALSE, g)
       \/ \E i \in 1..Len(tasks), g \in ActGlobalStates : ObserveStart(i, g)
       \/ \E i \in 1..Len(tasks) : SwitchStart(i)
       \/ \E i \in 1..Len(tasks), r \in NbRooms : RoomResolved(i, r)
       \/ \E i \in 1..Len(tasks) : DocResolved(i, "ydoc")
       \/ Tick
       \/ \E r \in ActRooms : _on_notebook_change(r)
       \/ \E r \in ActRooms : \E states \in AwarenessStates(r) : _on_awareness_change(r, states)
    /\ Len(tasks') <= MaxActTasks

SpecAct == Init /\ [][NextAct]_vars

\* the awareness states of SpecNotify: every client reports a cell
NotifyStates(room_id) ==
    {AwarenessOf(room_id, cells) : cells \in [Users -> Cells \cup {"absent"}]}

\* the notification pass with the two callbacks, of which cb2 raises: the
\* registrations with their attach task, the removal of the observer
\* registered first, the per-room callbacks and the clock
NextNotify ==
    /\ UNCHANGED chat_vars
    /\ \/ \E u \in Users, cb \in Callbacks : observe_notebook_activity(u, cb)
       \/ unobserve_notebook_activity(0)
       \/ \E i \in 1..Len(tasks), g \in ActGlobalStates : ObserveStart(i, g)
       \/ \E i \in 1..Len(tasks), r \in NbRooms : RoomResolved(i, r)
       \/ \E i \in 1..Len(tasks) : DocResolved(i, "ydoc")
       \/ Tick
       \/ \E r \in ActRooms : _on_notebook_change(r)
       \/ \E r \in ActRooms : \E states \in NotifyStates(r) : _on_awareness_change(r, states)
    /\ Len(tasks') <= MaxActTasks

SpecNotify == Init /\ [][NextNotify]_vars

\* a presence map that stays the same from one callback to the next: u1 is
\* connected with two clients, on different cells, and u2 with one
RepeatedStates(room_id) ==
    <<[username |-> "u1", activeCellId |-> "x", notebookPath |-> NotebookPathOf(room_id)],
      [username |-> "u2", activeCellId |-> "x", notebookPath |-> NotebookPathOf(room_id)],
      [username |-> "u1", activeCellId |-> "y", notebookPath |-> NotebookPathOf(room_id)]>>

\* the presence callback delivered again and again on the same map, while
\* the users register and are attached, the clock advances and cells are
\* edited; no observer is removed, so a stored per-room state is the trace of
\* an earlier run of the callback
NextRepeat ==
    /\ UNCHANGED chat_vars
    /\ \/ \E u \in Users : observe_notebook_activity(u, "cb1")
       \/ \E i \in 1..Len(tasks), g \in ActGlobalStates : ObserveStart(i, g)
       \/ \E i \in 1..Len(tasks), r \in NbRooms : RoomResolved(i, r)
       \/ \E i \in 1..Len(tasks) : DocResolved(i, "ydoc")
       \/ Tick
       \/ \E r \in ActRooms : _on_notebook_change(r)
       \/ \E r \in ActRooms : _on_awareness_change(r, RepeatedStates(r))
    /\ Len(tasks') <= MaxActTasks

SpecRepeat == Init /\ [][NextRepeat]_vars

\* the content-edit callback of a room, with or without a RoomTracker: one
\* user whose attach tasks may overlap, the removal of observers, the clock
NextEdit ==
    /\ UNCHANGED chat_vars
    /\ \/ observe_notebook_activity("u1", "cb1")
       \/ \E id \in 0..MaxObserverIds : unobserve_notebook_activity(id)
       \/ \E i \in 1..Len(tasks), g \in GlobalStatesOf({"u1"}) : ObserveStart(i, g)
       \/ \E i \in 1..Len(tasks), r \in NbRooms : RoomResolved(i, r)
       \/ \E i \in 1..Len(tasks) : DocResolved(i, "ydoc")
       \/ Tick
       \/ \E r \in NbRooms : _on_notebook_change(r)

SpecEdit == Init /\ [][NextEdit]_vars

Spec == SpecAct

(***************************************************************************)
(* Claims on routing (SpecRoute).                                          *)
(***************************************************************************)
IsRoutingCall(c) == c.kind \in {"slash_cmd", "chat_msg"}

\* C1: a message flagged deleted or raw_time never reaches a chat-msg or a
\* slash-cmd observer, through _on_message_change or _route_message.
C1_FlaggedNeverRouted ==
    \A i \in 1..Len(last_calls) :
        IsRoutingCall(last_calls[i]) =>
            /\ ~last_calls[i].message.deleted
            /\ ~last_calls[i].message.raw_time

\* the body's first whitespace-delimited token starts with "/"
StartsWithSlash(body) ==
    SkipSpace(body, 1) <= Len(body) /\ body[SkipSpace(body, 1)] = "/"

\* that token without its leading "/"
CommandOf(body) == SubSeq(body, SkipSpace(body, 1) + 1, SkipWord(body, SkipSpace(body, 1)) - 1)

\* C2: routing is exclusive and room-scoped: a slash command of room r
\* reaches only slash-command observers of r whose pattern matches it and no
\* plain-message observer; any other body reaches exactly the plain-message
\* observers of r, with the original message, and no slash-command observer.
C2_RoutingExclusive ==
    last_op.op = "_route_message" =>
        LET r == last_op.room
            m == last_op.message
            room_observers == DictGet(slash_cmd_observers, r, <<>>)
        IN /\ \A i \in 1..Len(last_calls) : last_calls[i].room = r
           /\ StartsWithSlash(m.body) =>
                \A i \in 1..Len(last_calls) :
                    /\ last_calls[i].kind = "slash_cmd"
                    /\ \E j \in 1..Len(room_observers) :
                          /\ last_calls[i].cb \in Range(room_observers[j].callbacks)
                          /\ matches_pattern(CommandOf(m.body), room_observers[j].pattern)
           /\ ~StartsWithSlash(m.body) =>
                /\ [i \in 1..Len(last_calls) |-> last_calls[i].cb] = DictGet(chat_msg_observers, r, <<>>)
                /\ \A i \in 1..Len(last_calls) :
                      last_calls[i].kind = "chat_msg" /\ last_calls[i].message = m

\* a slash command reached a slash-command observer of its room while the
\* room also has a plain-message observer, which was not invoked
C2_Witness ==
    /\ last_op.op = "_route_message"
    /\ StartsWithSlash(last_op.message.body)
    /\ SkipSpace(last_op.message.body, 1) > 1
    /\ Len(last_calls) = 1
    /\ last_calls[1].kind = "slash_cmd"
    /\ DictGet(chat_msg_observers, last_op.room, <<>>) # <<>>

\* what follows the first run of whitespace after the body's first token
RemainderOf(body) ==
    SubSeq(body, SkipSpace(body, SkipWord(body, SkipSpace(body, 1))), Len(body))

\* C13: for a slash-command message the observers get the first token
\* without its leading "/" as the command, and a message whose body is what
\* follows the first run of whitespace after that token, the empty string
\* when nothing follows.
C13_CommandAndBody ==
    (last_op.op = "_route_message" /\ StartsWithSlash(last_op.message.body)) =>
        \A i \in 1..Len(last_calls) :
            /\ last_calls[i].command = CommandOf(last_op.message.body)
            /\ last_calls[i].message.body = RemainderOf(last_op.message.body)

\* a slash command with an argument reached an observer, which got the
\* argument as the body
C13_Witness ==
    /\ last_op.op = "_route_message"
    /\ StartsWithSlash(last_op.message.body)
    /\ last_calls # <<>>
    /\ last_calls[1].command = <<"a">>
    /\ last_calls[1].message.body = <<"a">>

\* the fields of a Message other than its body
MetadataFields == {"id", "sender", "time", "mentions", "attachments", "deleted", "raw_time"}

CallbacksOf(calls) == [i \in 1..Len(calls) |-> calls[i].cb]

\* the patterns of a room, in the order the registry keeps them
PatternsOf(room_observers) == [i \in 1..Len(room_observers) |-> room_observers[i].pattern]

\* the callbacks registered under the pattern in the room, in order
CallbacksUnder(room_observers, pattern) ==
    Flatten([i \in 1..Len(room_observers) |->
               IF room_observers[i].pattern = pattern THEN room_observers[i].callbacks
               ELSE <<>>])

\* C15: no priority among patterns: a slash command of room r invokes every
\* callback of every pattern of r that matches, once, patterns in the order
\* of their registration and callbacks in theirs, and no callback of a
\* pattern that does not match; a registration puts a new pattern after the
\* room's patterns and a callback after the pattern's callbacks.
C15_AllMatchingInOrder ==
    [][/\ (last_op'.op = "_route_message" /\ StartsWithSlash(last_op'.message.body)) =>
            LET obs == DictGet(slash_cmd_observers, last_op'.room, <<>>)
                cmd == CommandOf(last_op'.message.body)
            IN CallbacksOf(last_calls') =
                  Flatten([i \in 1..Len(obs) |->
                             IF matches_pattern(cmd, obs[i].pattern) THEN obs[i].callbacks
                             ELSE <<>>])
       /\ last_op'.op = "observe_slash_cmd_msg" =>
            LET before == DictGet(slash_cmd_observers, last_op'.room, <<>>)
                after == slash_cmd_observers'[last_op'.room]
                pat == last_op'.pattern
            IN /\ PatternsOf(after) =
                     IF \E i \in 1..Len(before) : before[i].pattern = pat
                     THEN PatternsOf(before) ELSE Append(PatternsOf(before), pat)
               /\ CallbacksUnder(after, pat) = Append(CallbacksUnder(before, pat), last_op'.cb)
               /\ \A i \in 1..Len(before) :
                     before[i].pattern # pat => after[i] = before[i]]_vars

\* a command matched two patterns of its room: the callback of the pattern
\* registered first ran first, the other one after it
C15_Witness ==
    /\ last_op.op = "_route_message"
    /\ Len(DictGet(slash_cmd_observers, last_op.room, <<>>)) = 2
    /\ Len(last_calls) = 2
    /\ slash_cmd_observers[last_op.room][1].pattern = <<"a", ".", "*">>
    /\ last_calls[1].cb = slash_cmd_observers[last_op.room][1].callbacks[1]
    /\ last_calls[2].cb = slash_cmd_observers[last_op.room][2].callbacks[1]
    /\ last_calls[1].cb # last_calls[2].cb

\* re.compile raises re.error on the anchored pattern
InvalidPattern(pattern) == ~RegexCompiles(<<"^">> \o pattern \o <<"$">>)

\* C28: a pattern that fails to compile matches no command and never
\* raises: its registration is stored like any other, and a slash command
\* routed in a room that has it calls the callbacks of the valid patterns
\* that match, in order, and none registered under the invalid pattern.
C28_InvalidPatternMatchesNothing ==
    /\ last_op.op = "observe_slash_cmd_msg" =>
          /\ last_op.room \in DOMAIN slash_cmd_observers
          /\ CallbacksUnder(slash_cmd_observers[last_op.room], last_op.pattern) # <<>>
    /\ (last_op.op = "_route_message" /\ StartsWithSlash(last_op.message.body)) =>
          LET obs == DictGet(slash_cmd_observers, last_op.room, <<>>)
              cmd == CommandOf(last_op.message.body)
          IN /\ \A i \in 1..Len(obs) :
                   InvalidPattern(obs[i].pattern) =>
                      \A w \in MatchWords \cup {cmd} : ~matches_pattern(w, obs[i].pattern)
             /\ CallbacksOf(last_calls) =
                   Flatten([i \in 1..Len(obs) |->
                              IF ~InvalidPattern(obs[i].pattern)
                                 /\ matches_pattern(cmd, obs[i].pattern)
                              THEN obs[i].callbacks ELSE <<>>])

\* a command was routed in a room whose first pattern does not compile and
\* whose second pattern matches: the only call is to the second pattern's
\* callback
C28_Witness ==
    /\ last_op.op = "_route_message"
    /\ Len(DictGet(slash_cmd_observers, last_op.room, <<>>)) = 2
    /\ InvalidPattern(slash_cmd_observers[last_op.room][1].pattern)
    /\ Len(last_calls) = 1
    /\ last_calls[1].cb = slash_cmd_observers[last_op.room][2].callbacks[1]
    /\ last_calls[1].cb # slash_cmd_observers[last_op.room][1].callbacks[1]

(***************************************************************************)
(* Claims on matches_pattern (SpecMatch).                                  *)
(***************************************************************************)
\* the pattern is a regular expression and the whole word, from its first
\* to its last character, is in its language
FullMatch(word, pattern) ==
    /\ RegexCompiles(pattern)
    /\ Len(word) \in AltEnds(pattern, word, 1, Len(pattern), {0})

\* C27: matches_pattern(word, pattern) is true only if the whole word
\* matches the pattern: a word of which only a prefix or only a suffix
\* matches does not match, for every pattern, one with a top-level
\* alternation included.
C27_AnchoredBothEnds ==
    (last_op.op = "matches_pattern" /\ last_op.ret) =>
        FullMatch(last_op.word, last_op.pattern)

(***************************************************************************)
(* Claims on the dispatch passes (SpecDispatch).                           *)
(***************************************************************************)
\* the callbacks the pass of a handler has to serve, in order, read from the
\* registries as they are when the handler starts
DispatchList(op) ==
    CASE op.op = "_route_message" ->
           IF StartsWithSlash(op.message.body)
           THEN LET obs == DictGet(slash_cmd_observers, op.room, <<>>)
                IN Flatten([i \in 1..Len(obs) |->
                              IF matches_pattern(CommandOf(op.message.body), obs[i].pattern)
                              THEN obs[i].callbacks ELSE <<>>])
           ELSE DictGet(chat_msg_observers, op.room, <<>>)
      [] op.op = "connect_chat" ->
           IF op.room \in DOMAIN active_chats THEN <<>> ELSE chat_init_observers
      [] op.op = "_on_chat_reset" -> chat_reset_observers
      [] OTHER -> <<>>

DispatchOps == {"_route_message", "connect_chat", "_on_chat_reset"}

\* C16: a chat observer that raises does not abort the pass: routing a
\* message, connecting a chat and resetting a chat call every callback of
\* their pass, those listed after a raising one included, the handler
\* completes with its effect on the connection, and the registries are the
\* ones it started with.
C16_RaisingObserverIsolated ==
    [][last_op'.op \in DispatchOps =>
         /\ CallbacksOf(last_calls') = DispatchList(last_op')
         /\ \A i \in 1..Len(last_calls') :
               last_calls'[i].raised =>
                  \A j \in (i + 1)..Len(DispatchList(last_op')) :
                     /\ j <= Len(last_calls')
                     /\ last_calls'[j].cb = DispatchList(last_op')[j]
         /\ last_op'.op # "_route_message" =>
               /\ last_op'.room \in DOMAIN active_chats'
               /\ last_op'.room \notin DOMAIN active_chats \/ last_op'.op = "_on_chat_reset" =>
                     active_chats'[last_op'.room] = last_op'.doc
         /\ chat_init_observers' = chat_init_observers
         /\ slash_cmd_observers' = slash_cmd_observers
         /\ chat_msg_observers' = chat_msg_observers
         /\ chat_reset_observers' = chat_reset_observers
         /\ notebook_reset_observers' = notebook_reset_observers]_vars

\* the first of two plain-message observers raised and the second one was
\* called after it
C16_Witness ==
    /\ last_op.op = "_route_message"
    /\ Len(last_calls) = 2
    /\ last_calls[1].kind = "chat_msg"
    /\ last_calls[1].raised
    /\ ~last_calls[2].raised
    /\ chat_msg_observers[last_op.room] = <<last_calls[1].cb, last_calls[2].cb>>

(***************************************************************************)
(* Claims on the chat connection lifecycle (SpecChat).                     *)
(***************************************************************************)
\* the live delta subscriptions the router holds for a room, on any document
LiveSubs(room_id) ==
    {<<d, i>> \in Docs \X (1..MaxSubs) : i <= Len(ymessages[d]) /\ ymessages[d][i].room = room_id}

\* C9: exactly one live delta subscription for a room while it is connected
\* and none while it is not.
C9_OneSubscriptionPerRoom ==
    \A r \in ChatRooms :
        Cardinality(LiveSubs(r)) = IF r \in DOMAIN active_chats THEN 1 ELSE 0

\* C10: connect_chat on a room that is not connected stores the document and
\* invokes every chat-init observer once with (room_id, document); on a
\* connected room it changes nothing and invokes no observer.
C10_ConnectChat ==
    [][last_op'.op = "connect_chat" =>
         IF last_op'.room \notin DOMAIN active_chats
         THEN /\ last_op'.room \in DOMAIN active_chats'
              /\ active_chats'[last_op'.room] = last_op'.doc
              /\ Len(last_calls') = Len(chat_init_observers)
              /\ \A i \in 1..Len(chat_init_observers) :
                    /\ last_calls'[i].kind = "chat_init"
                    /\ last_calls'[i].cb = chat_init_observers[i]
                    /\ last_calls'[i].room = last_op'.room
                    /\ last_calls'[i].doc = last_op'.doc
         ELSE /\ active_chats' = active_chats
              /\ ymessages' = ymessages
              /\ message_observers' = message_observers
              /\ last_calls' = <<>>]_vars

\* connect_chat connected a room and called two chat-init observers
C10_Witness ==
    /\ last_op.op = "connect_chat"
    /\ Len(last_calls) = 2
    /\ last_op.room \in DOMAIN active_chats
    /\ active_chats[last_op.room] = last_op.doc

(***************************************************************************)
(* Claims on activity detection (SpecAct).                                 *)
(***************************************************************************)
\* a notification for the user is among the calls of the last handler
Emitted(username) == \E i \in 1..Len(last_calls) : last_calls[i].username = username

\* C3: in the presence callback, a known user's change of active cell emits
\* a notification if and only if the room's last_edit_time is greater than
\* the user's stored last_check and now - last_trigger_time >= cooldown.
C3_NotifyIffGate ==
    last_op.op = "_on_awareness_change" =>
        \A k \in 1..Len(last_op.decisions) :
            LET d == last_op.decisions[k]
            IN /\ d.notified <=> (d.edit > d.check /\ now - d.trigger >= Cooldown)
               /\ d.notified <=> Emitted(d.username)

\* one pass saw two users change cells after an edit: the first was notified,
\* the second had a newer edit too and was held back by the cooldown alone
C3_Witness ==
    /\ last_op.op = "_on_awareness_change"
    /\ Len(last_op.decisions) = 2
    /\ last_op.decisions[1].notified
    /\ Emitted(last_op.decisions[1].username)
    /\ ~last_op.decisions[2].notified
    /\ last_op.decisions[2].edit > last_op.decisions[2].check

\* C4: any two activity notifications from the same room are at least one
\* cooldown apart, whatever edits, presence changes and (un)registrations
\* come between them.
C4_CooldownPerRoom ==
    [][\A r \in NbRooms :
          (/\ last_op'.op = "_on_awareness_change"
           /\ last_op'.room = r
           /\ last_calls' # <<>>
           /\ notified[r] # 0) => now - notified[r] >= Cooldown]_vars

\* the triple stored for the user in the room, NoRoomState when there is none
StoredState(us, username, room_id) == DictGet(us[username].room_states, room_id, NoRoomState)

\* a call to an observer of the user is among the calls of the step
EmittedNext(username) == \E i \in 1..Len(last_calls') : last_calls'[i].username = username

\* C11: the first time the presence callback sees an active cell for a user
\* in a room (no cell stored, or the empty entry a focus switch made), it
\* stores (active_cell, notebook_path, now) and emits no notification,
\* whatever the room's edit and trigger times are.
C11_FirstSightRecordsOnly ==
    [][last_op'.op = "_on_awareness_change" =>
         \A k \in 1..Len(last_op'.seen) :
             LET e == last_op'.seen[k]
             IN StoredState(users, e.username, last_op'.room).active_cell = None =>
                    /\ StoredState(users', e.username, last_op'.room) =
                           [active_cell |-> e.active_cell,
                            notebook_path |-> e.notebook_path,
                            last_check |-> now]
                    /\ ~EmittedNext(e.username)]_vars

\* a user's first cell in a room was recorded, without a notification,
\* although the room had been edited and no notification was ever made
C11_Witness ==
    /\ last_op.op = "_on_awareness_change"
    /\ last_calls = <<>>
    /\ last_op.room \in DOMAIN rooms
    /\ rooms[last_op.room].last_edit_time > 0
    /\ rooms[last_op.room].last_trigger_time = 0
    /\ \E k \in 1..Len(last_op.seen) :
          /\ last_op.seen[k].prev_active_cell = None
          /\ StoredState(users, last_op.seen[k].username, last_op.room).active_cell
                 = last_op.seen[k].active_cell
          /\ StoredState(users, last_op.seen[k].username, last_op.room).last_check = now

\* C12: when the presence callback sees a user's active cell equal to the
\* stored one, it emits no notification for the user and leaves the stored
\* triple as it is (last_check is not refreshed); last_trigger_time changes
\* only when another client's change is notified in the same pass.
C12_SameCellUntouched ==
    [][last_op'.op = "_on_awareness_change" =>
         \A k \in 1..Len(last_op'.seen) :
             LET e == last_op'.seen[k]
                 r == last_op'.room
             IN StoredState(users, e.username, r).active_cell = e.active_cell =>
                    /\ StoredState(users', e.username, r) = StoredState(users, e.username, r)
                    /\ ~EmittedNext(e.username)
                    /\ last_calls' = <<>> =>
                          rooms'[r].last_trigger_time = rooms[r].last_trigger_time]_vars

\* a user was seen on the stored cell after an edit newer than the stored
\* last_check: nothing was emitted and last_check stayed behind the clock
C12_Witness ==
    /\ last_op.op = "_on_awareness_change"
    /\ last_calls = <<>>
    /\ last_op.room \in DOMAIN rooms
    /\ \E k \in 1..Len(last_op.seen) :
          LET e == last_op.seen[k]
          IN /\ e.prev_active_cell = e.active_cell
             /\ StoredState(users, e.username, last_op.room).active_cell = e.active_cell
             /\ StoredState(users, e.username, last_op.room).last_check < now
             /\ rooms[last_op.room].last_edit_time
                    > StoredState(users, e.username, last_op.room).last_check

\* C19: disconnect_chat changes nothing for a room that is not connected;
\* for a connected room it removes the room from active_chats and drops the
\* callback recorded in message_observers, also when ymessages.unobserve
\* raises, in which case the handler still completes and no subscription
\* is released; the other rooms and the registries stay as they are.
C19_DisconnectChat ==
    [][last_op'.op = "disconnect_chat" =>
         LET r == last_op'.room
         IN /\ last_calls' = <<>>
            /\ <<chat_init_observers', slash_cmd_observers', chat_msg_observers',
                 chat_reset_observers', notebook_reset_observers'>> =
               <<chat_init_observers, slash_cmd_observers, chat_msg_observers,
                 chat_reset_observers, notebook_reset_observers>>
            /\ IF r \notin DOMAIN active_chats
               THEN /\ active_chats' = active_chats
                    /\ message_observers' = message_observers
                    /\ ymessages' = ymessages
               ELSE /\ DOMAIN active_chats' = DOMAIN active_chats \ {r}
                    /\ DOMAIN message_observers' = DOMAIN message_observers \ {r}
                    /\ \A q \in DOMAIN active_chats' : active_chats'[q] = active_chats[q]
                    /\ \A q \in DOMAIN message_observers' :
                          message_observers'[q] = message_observers[q]
                    /\ last_op'.raised => ymessages' = ymessages
                    /\ (~last_op'.raised /\ r \in DOMAIN message_observers) =>
                          /\ Len(ymessages'[active_chats[r]]) = Len(ymessages[active_chats[r]]) - 1
                          /\ \A d \in Docs \ {active_chats[r]} : ymessages'[d] = ymessages[d]]_vars

\* disconnect_chat ran on a connected room whose document had been replaced
\* by a reset: unobserve raised on the new document, and the room is gone
\* from active_chats and from message_observers all the same
C19_Witness ==
    /\ last_op.op = "disconnect_chat"
    /\ last_op.raised
    /\ last_op.room \notin DOMAIN active_chats
    /\ last_op.room \notin DOMAIN message_observers
    /\ LiveSubs(last_op.room) # {}

\* C20: _on_chat_reset(room_id, ychat) stores ychat as the room's active
\* document, calls every chat-reset observer once, in order, with
\* (room_id, ychat), and neither subscribes nor unsubscribes: the callback
\* recorded for the room, the subscriptions on every document, the other
\* rooms' documents and the registries are unchanged.
C20_ChatReset ==
    [][last_op'.op = "_on_chat_reset" =>
         LET r == last_op'.room
         IN /\ DOMAIN active_chats' = DOMAIN active_chats \cup {r}
            /\ active_chats'[r] = last_op'.doc
            /\ \A q \in DOMAIN active_chats \ {r} : active_chats'[q] = active_chats[q]
            /\ Len(last_calls') = Len(chat_reset_observers)
            /\ \A i \in 1..Len(chat_reset_observers) :
                  /\ last_calls'[i].kind = "chat_reset"
                  /\ last_calls'[i].cb = chat_reset_observers[i]
                  /\ last_calls'[i].room = r
                  /\ last_calls'[i].doc = last_op'.doc
            /\ message_observers' = message_observers
            /\ ymessages' = ymessages
            /\ \A q \in ChatRooms : LiveSubs(q)' = LiveSubs(q)
            /\ <<chat_init_observers', slash_cmd_observers', chat_msg_observers',
                 chat_reset_observers', notebook_reset_observers'>> =
               <<chat_init_observers, slash_cmd_observers, chat_msg_observers,
                 chat_reset_observers, notebook_reset_observers>>]_vars

\* a connected room was reset to a document other than the one its callback
\* is subscribed to: two reset observers were called with the new document,
\* and the room's only subscription is still the one on the old document
C20_Witness ==
    /\ last_op.op = "_on_chat_reset"
    /\ Len(last_calls) = 2
    /\ last_op.room \in DOMAIN message_observers
    /\ message_observers[last_op.room].doc # last_op.doc
    /\ active_chats[last_op.room] = last_op.doc
    /\ \A d \in Docs :
          (\E i \in 1..Len(ymessages[d]) : ymessages[d][i].room = last_op.room)
             <=> d = message_observers[last_op.room].doc

(***************************************************************************)
(* Claims on shutdown (SpecCleanup).                                       *)
(***************************************************************************)
\* the chat observer registries are empty
ChatRegistriesEmpty ==
    /\ chat_init_observers = <<>>
    /\ chat_reset_observers = <<>>
    /\ DOMAIN slash_cmd_observers = {}
    /\ DOMAIN chat_msg_observers = {}

\* no notebook-activity observer is registered
ActivityRegistryEmpty ==
    /\ DOMAIN _observer_callbacks = {}
    /\ DOMAIN users = {}

\* C21: after cleanup no chat is connected, every chat delta subscription
\* is released, and every observer registry is empty: chat-init, chat-reset,
\* slash-command, plain-message, notebook-reset and notebook-activity.
C21_CleanupClearsAll ==
    last_op.op = "cleanup" =>
        /\ DOMAIN active_chats = {}
        /\ DOMAIN message_observers = {}
        /\ \A r \in ChatRooms : LiveSubs(r) = {}
        /\ ChatRegistriesEmpty
        /\ notebook_reset_observers = <<>>
        /\ ActivityRegistryEmpty

\* C22: a second cleanup right after a first leaves the state as the first
\* left it, with all registries empty and no active chats.
C22_CleanupIdempotent ==
    [][(last_op.op = "cleanup" /\ last_op'.op = "cleanup") =>
          /\ chat_vars' = chat_vars
          /\ act_vars' = act_vars
          /\ DOMAIN active_chats' = {}
          /\ ChatRegistriesEmpty'
          /\ notebook_reset_observers' = <<>>
          /\ ActivityRegistryEmpty']_vars

\* C29: whenever the presence callback sees a user on a cell other than the
\* stored one, it overwrites the stored triple with (new active_cell, new
\* notebook_path, now), whether or not a notification went out; the edit
\* that was pending is thereby consumed: the room's last_edit_time is not
\* after the new last_check, and a change seen while last_edit_time is not
\* after the stored last_check emits nothing.
C29_ChangeAlwaysOverwrites ==
    [][last_op'.op = "_on_awareness_change" =>
         \A k \in 1..Len(last_op'.seen) :
             LET e == last_op'.seen[k]
                 r == last_op'.room
                 prev == StoredState(users, e.username, r)
             IN (prev.active_cell # None /\ prev.active_cell # e.active_cell) =>
                   /\ StoredState(users', e.username, r) =
                         [active_cell |-> e.active_cell,
                          notebook_path |-> e.notebook_path,
                          last_check |-> now]
                   /\ rooms'[r].last_edit_time <= StoredState(users', e.username, r).last_check
                   /\ rooms[r].last_edit_time <= prev.last_check => ~EmittedNext(e.username)]_vars

\* a cell change came after an edit but within the cooldown: no call was
\* made for the user, and the stored triple carries the new cell and the
\* time of the pass, at or after the edit
C29_Witness ==
    /\ last_op.op = "_on_awareness_change"
    /\ \E k \in 1..Len(last_op.decisions) :
          LET d == last_op.decisions[k]
              st == StoredState(users, d.username, last_op.room)
          IN /\ ~d.notified
             /\ d.edit > d.check
             /\ ~Emitted(d.username)
             /\ st.last_check = now
             /\ st.last_check >= rooms[last_op.room].last_edit_time
             /\ \E j \in 1..Len(last_op.seen) :
                   /\ last_op.seen[j].username = d.username
                   /\ last_op.seen[j].active_cell = st.active_cell
                   /\ last_op.seen[j].prev_active_cell # st.active_cell

(***************************************************************************)
(* Claims on the content-edit callback (SpecEdit).                         *)
(***************************************************************************)
\* C30: the content-edit callback of a room only sets the last_edit_time of
\* the room's RoomTracker to the current time: it calls no observer and
\* leaves last_trigger_time, active_users, the other rooms, the users and
\* their per-room states, the registrations and the subscriptions as they
\* are; when the room has no RoomTracker it changes nothing.
C30_EditOnlyStampsRoom ==
    [][last_op'.op = "_on_notebook_change" =>
         LET r == last_op'.room
         IN /\ last_calls' = <<>>
            /\ <<users, observer_counter, _observer_callbacks, tasks, global_observed,
                 nb_subs, now, notified>>' =
               <<users, observer_counter, _observer_callbacks, tasks, global_observed,
                 nb_subs, now, notified>>
            /\ DOMAIN rooms' = DOMAIN rooms
            /\ \A q \in DOMAIN rooms \ {r} : rooms'[q] = rooms[q]
            /\ r \in DOMAIN rooms =>
                  /\ rooms'[r].last_edit_time = now
                  /\ rooms'[r].last_trigger_time = rooms[r].last_trigger_time
                  /\ rooms'[r].active_users = rooms[r].active_users
            /\ r \notin DOMAIN rooms => rooms' = rooms]_vars

\* an edit was delivered for a tracked room after the clock had advanced:
\* the room carries the new time and its users
C30_Witness ==
    /\ last_op.op = "_on_notebook_change"
    /\ last_op.room \in DOMAIN rooms
    /\ now > StartTime
    /\ rooms[last_op.room].last_edit_time = now
    /\ rooms[last_op.room].active_users # {}

(***************************************************************************)
(* Claims on the notification pass (SpecNotify).                           *)
(***************************************************************************)
\* the callbacks registered for the username, in the order of the user's
\* observer ids
RegisteredFor(username) ==
    IF username \notin DOMAIN users THEN <<>>
    ELSE LET ids == SelectSeq(users[username].observer_ids,
                              LAMBDA x : x \in DOMAIN _observer_callbacks)
         IN [k \in 1..Len(ids) |-> _observer_callbacks[ids[k]].callback]

\* the calls of the step made for the username, in order
CallsNextFor(username) == SelectSeq(last_calls', LAMBDA c : c.username = username)

\* what the pass of the step saw the user's client report
SeenNextFor(username) ==
    LET k == CHOOSE k \in 1..Len(last_op'.seen) : last_op'.seen[k].username = username
    IN last_op'.seen[k]

\* the users the pass of the step notified
NotifiedNext ==
    {last_op'.decisions[k].username :
        k \in {j \in 1..Len(last_op'.decisions) : last_op'.decisions[j].notified}}

\* C17: an activity callback that raises blocks no observer and corrupts no
\* state: in a pass that notifies user u and in which a callback raises,
\* every callback registered for u after the raising one is called too, the
\* room's last_trigger_time is now and the stored triple of u is the
\* reported (active_cell, notebook_path) with last_check now, as in a pass
\* without a raise.
C17_RaisingActivityObserver ==
    [][last_op'.op = "_on_awareness_change" =>
         \A u \in NotifiedNext :
             (\E i \in 1..Len(last_calls') : last_calls'[i].raised) =>
                /\ Len(CallsNextFor(u)) = Len(RegisteredFor(u))
                /\ \A i \in 1..Len(CallsNextFor(u)) :
                      CallsNextFor(u)[i].raised =>
                         \A j \in (i + 1)..Len(RegisteredFor(u)) :
                            CallsNextFor(u)[j].cb = RegisteredFor(u)[j]
                /\ rooms'[last_op'.room].last_trigger_time = now
                /\ StoredState(users', u, last_op'.room) =
                      [active_cell |-> SeenNextFor(u).active_cell,
                       notebook_path |-> SeenNextFor(u).notebook_path,
                       last_check |-> now]
                /\ \A v \in DOMAIN users :
                      /\ v \in DOMAIN users'
                      /\ users'[v].observer_ids = users[v].observer_ids
                /\ _observer_callbacks' = _observer_callbacks]_vars

\* the first of the user's two callbacks raised, the second one was called,
\* and the room and the user's stored state carry the time of the pass
C17_Witness ==
    /\ last_op.op = "_on_awareness_change"
    /\ Len(last_calls) = 2
    /\ last_calls[1].raised
    /\ ~last_calls[2].raised
    /\ last_calls[1].username = last_calls[2].username
    /\ rooms[last_op.room].last_trigger_time = now
    /\ StoredState(users, last_calls[1].username, last_op.room).last_check = now

\* C18: when the pass notifies user u, the room's last_trigger_time is now
\* and the callbacks called for u are the ones registered for u, each once
\* and in order, with (u, the cell stored for u before the pass, the
\* notebook path the client reports); no callback is called for a username
\* the pass did not notify.
C18_NotificationCalls ==
    [][last_op'.op = "_on_awareness_change" =>
         /\ \A u \in NotifiedNext :
               /\ rooms'[last_op'.room].last_trigger_time = now
               /\ CallsNextFor(u) =
                     [i \in 1..Len(RegisteredFor(u)) |->
                         ActivityCall(RegisteredFor(u)[i], u,
                                      StoredState(users, u, last_op'.room).active_cell,
                                      SeenNextFor(u).notebook_path)]
               /\ StoredState(users, u, last_op'.room).active_cell # SeenNextFor(u).active_cell
         /\ \A i \in 1..Len(last_calls') : last_calls'[i].username \in NotifiedNext
         /\ \A i \in 1..Len(last_calls') :
               \E id \in DOMAIN _observer_callbacks :
                  /\ _observer_callbacks[id].username = last_calls'[i].username
                  /\ _observer_callbacks[id].callback = last_calls'[i].cb]_vars

\* a pass saw the clients of two users, each with one observer, move to
\* another cell: one user was notified and the only call made is the one to
\* that user's callback, with the cell the user left
C18_Witness ==
    /\ last_op.op = "_on_awareness_change"
    /\ Len(last_op.decisions) = 2
    /\ Len(last_calls) = 1
    /\ \A u \in Users : u \in DOMAIN users /\ Len(users[u].observer_ids) = 1
    /\ \E k \in 1..Len(last_op.seen) :
          /\ last_op.seen[k].username = last_calls[1].username
          /\ last_op.seen[k].prev_active_cell = last_calls[1].prev_active_cell
          /\ last_op.seen[k].active_cell # last_calls[1].prev_active_cell
          /\ last_op.seen[k].notebook_path = last_calls[1].notebook_path

(***************************************************************************)
(* Claims on the lifecycle of the trackers (SpecLife, SpecRace).           *)
(***************************************************************************)
\* the step of a deferred task in which a resolver failed: the room resolver
\* gave no room or raised, for the new or the old document, or the document
\* resolver gave no document or raised
ResolutionFailed(op) ==
    /\ op.op = "task"
    /\ \/ op.from = "await_room" /\ op.task.room_id = None
       \/ op.from = "await_doc" /\ (op.task.no_doc \/ op.task.doc_raised)
       \/ op.from = "await_old_room" /\ op.task.old_room_id \in {None, "raise"}

\* C23: a resolution failure is contained: the step of the task in which a
\* resolver gives nothing or raises ends or continues that task only, creates
\* no RoomTracker and no subscription, schedules no task, and leaves the
\* registrations, the global subscription and the rooms' subscriptions as
\* they are, so that later registrations, presence changes and edits are
\* handled as before.
C23_ResolutionFailureContained ==
    [][ResolutionFailed(last_op') =>
          /\ rooms' = rooms
          /\ nb_subs' = nb_subs
          /\ Len(tasks') <= Len(tasks)
          /\ \A j \in 1..Len(tasks') : tasks'[j].pc \notin {"start", "await_room", "await_doc"}
                                           \/ \E k \in 1..Len(tasks) : tasks[k] = tasks'[j]
          /\ last_op'.pc \in {"done", "await_old_room"}
          /\ last_op'.pc = "await_old_room" =>
                last_op'.from = "await_doc" /\ last_op'.task.no_doc
          /\ _observer_callbacks' = _observer_callbacks
          /\ observer_counter' = observer_counter
          /\ global_observed' = global_observed
          /\ \A u \in DOMAIN users :
                /\ u \in DOMAIN users'
                /\ users'[u].observer_ids = users[u].observer_ids]_vars

\* the document resolver raised in a task of a registered user: the task is
\* over, none is pending, and the room it was attaching has no RoomTracker
C23_Witness ==
    /\ last_op.op = "task"
    /\ last_op.from = "await_doc"
    /\ last_op.task.doc_raised
    /\ last_op.pc = "done"
    /\ tasks = <<>>
    /\ last_op.task.username \in DOMAIN users
    /\ last_op.task.room_id \notin DOMAIN rooms

\* C5: in every reachable state a RoomTracker exists for a room only with a
\* non-empty active_users set.
C5_TrackerIffActiveUsers ==
    \A r \in DOMAIN rooms : rooms[r].active_users # {}

\* a focus switch detached its user from the old room, which was torn down,
\* while a tracker with users remains
C5_Witness ==
    /\ last_op.op = "task"
    /\ last_op.from = "await_old_room"
    /\ last_op.task.old_room_id \in NbRooms
    /\ last_op.task.old_room_id \notin DOMAIN rooms
    /\ nb_subs[last_op.task.old_room_id] = NoSubs
    /\ \E r \in DOMAIN rooms : rooms[r].active_users # {}

\* C6: after unobserve_notebook_activity removes the last observer of a user,
\* the user is in no active_users set, and every tracker that held no other
\* user is deleted with its two subscriptions released.
C6_UnobserveDetaches ==
    [][(/\ last_op'.op = "unobserve_notebook_activity"
        /\ last_op'.ret
        /\ last_op'.username \in DOMAIN users
        /\ last_op'.username \notin DOMAIN users') =>
           /\ \A r \in DOMAIN rooms' : last_op'.username \notin rooms'[r].active_users
           /\ \A r \in DOMAIN rooms :
                 rooms[r].active_users \subseteq {last_op'.username} =>
                     /\ r \notin DOMAIN rooms'
                     /\ nb_subs'[r].awareness = nb_subs[r].awareness - 1
                     /\ nb_subs'[r].notebook = nb_subs[r].notebook - 1]_vars

\* the last observer of a user was removed: its room was torn down and the
\* room of the other user was kept
C6_Witness ==
    /\ last_op.op = "unobserve_notebook_activity"
    /\ last_op.ret
    /\ last_op.username \notin DOMAIN users
    /\ last_op.stopped # {}
    /\ \A r \in last_op.stopped : nb_subs[r] = NoSubs
    /\ rooms # EmptyDict

\* the observer ids listed in the trackers of the users
ListedIds(us) == UNION {Range(us[u].observer_ids) : u \in DOMAIN us}

\* C24: unobserve_notebook_activity(id) returns false and changes nothing
\* when id is not a live registration (never issued, or unregistered
\* before); for a live registration it returns true and removes it from
\* _observer_callbacks and from its user's observer_ids, keeping the others.
C24_UnobserveReturn ==
    [][last_op'.op = "unobserve_notebook_activity" =>
          LET id == last_op'.id
          IN IF id \in DOMAIN _observer_callbacks
             THEN /\ last_op'.ret
                  /\ DOMAIN _observer_callbacks' = DOMAIN _observer_callbacks \ {id}
                  /\ \A k \in DOMAIN _observer_callbacks' :
                        _observer_callbacks'[k] = _observer_callbacks[k]
                  /\ ListedIds(users') = ListedIds(users) \ {id}
                  /\ observer_counter' = observer_counter
             ELSE /\ ~last_op'.ret
                  /\ act_vars' = act_vars
                  /\ last_calls' = <<>>]_vars

\* an id that was issued and unregistered before is unregistered again: the
\* call returns false
C24_Witness ==
    /\ last_op.op = "unobserve_notebook_activity"
    /\ ~last_op.ret
    /\ last_op.id < observer_counter
    /\ last_op.id \notin DOMAIN _observer_callbacks
    /\ DOMAIN _observer_callbacks # {}

\* C25: every observe_notebook_activity returns an id greater than every id
\* returned before: the id is the counter, which no step lowers and which
\* every live or removed id is below; so no id is handed out twice, also
\* after its registration is removed and for another username.
C25_ObserverIdsIncrease ==
    [][/\ observer_counter' >= observer_counter
       /\ \A id \in DOMAIN _observer_callbacks \cup ListedIds(users) : id < observer_counter
       /\ last_op'.op = "observe_notebook_activity" =>
             /\ last_op'.ret >= observer_counter
             /\ last_op'.ret < observer_counter'
             /\ last_op'.ret \notin DOMAIN _observer_callbacks \cup ListedIds(users)
             /\ last_op'.ret \in DOMAIN _observer_callbacks'
             /\ _observer_callbacks'[last_op'.ret].username = last_op'.username
       /\ (last_op.op = "unobserve_notebook_activity" /\ last_op.ret
             /\ last_op'.op = "observe_notebook_activity") =>
                last_op'.ret > last_op.id]_vars

\* after the registration with id 0 was removed, the next registration
\* got id 1
C25_Witness ==
    /\ last_op.op = "observe_notebook_activity"
    /\ last_op.ret = 1
    /\ 0 \notin DOMAIN _observer_callbacks
    /\ DOMAIN users = {last_op.username}
    /\ users[last_op.username].observer_ids = <<1>>

\* the ids of the live registrations of the username
LiveIds(username) ==
    {id \in DOMAIN _observer_callbacks : _observer_callbacks[id].username = username}

\* C26: in every reachable state a UserTracker exists for username u if and
\* only if a live registration has username u, and its observer_ids are the
\* ids of the live registrations of u, each listed once.
C26_UserTrackerIffObservers ==
    \A u \in Users :
        /\ u \in DOMAIN users <=> LiveIds(u) # {}
        /\ u \in DOMAIN users =>
              /\ Range(users[u].observer_ids) = LiveIds(u)
              /\ Len(users[u].observer_ids) = Cardinality(LiveIds(u))

\* the last observer of one user was unregistered and the user's tracker is
\* gone, while the other user's tracker lists its live registration
C26_Witness ==
    /\ last_op.op = "unobserve_notebook_activity"
    /\ last_op.ret
    /\ last_op.username \notin DOMAIN users
    /\ LiveIds(last_op.username) = {}
    /\ \E u \in DOMAIN users : users[u].observer_ids = <<1>> /\ LiveIds(u) = {1}

\* C7: a deferred task that resumes when its user has no observer left
\* creates no RoomTracker, adds the user to no active_users set and creates
\* no subscription.
C7_StaleTaskNoOp ==
    [][(last_op'.op = "task" /\ last_op'.task.username \notin DOMAIN users) =>
           /\ DOMAIN rooms' \subseteq DOMAIN rooms
           /\ \A r \in DOMAIN rooms' :
                 last_op'.task.username \in rooms'[r].active_users =>
                     last_op'.task.username \in rooms[r].active_users
           /\ \A r \in NbRooms :
                 /\ nb_subs'[r].awareness <= nb_subs[r].awareness
                 /\ nb_subs'[r].notebook <= nb_subs[r].notebook]_vars

\* the user has been registered ever since the first registration: the
\* observer with the first id is still in the user's tracker
RegisteredThroughout(us, username) ==
    username \in DOMAIN us /\ 0 \in Range(us[username].observer_ids)

\* C8: when the focus-switch task of a still-registered user from document P
\* to N completes with both room ids resolved and N's document available,
\* the user is in active_users of N's room, which has its two subscriptions,
\* has a state entry for it, and is not in active_users of P's room.
C8_SwitchCompletes ==
    [][(/\ last_op'.op = "task"
        /\ last_op'.task.kind = "switch"
        /\ last_op'.from = "await_old_room"
        /\ last_op'.task.old_room_id \in NbRooms
        /\ ~last_op'.task.no_doc
        /\ RegisteredThroughout(users', last_op'.task.username)) =>
           LET u == last_op'.task.username
               N == last_op'.task.room_id
               P == last_op'.task.old_room_id
           IN /\ N \in DOMAIN rooms'
              /\ u \in rooms'[N].active_users
              /\ nb_subs'[N].awareness > 0
              /\ nb_subs'[N].notebook > 0
              /\ N \in DOMAIN users'[u].room_states
              /\ P \in DOMAIN rooms' => u \notin rooms'[P].active_users]_vars

(***************************************************************************)
(* Claims on interleaved tasks, repeated presence maps and chat resets      *)
(* (SpecLife, SpecSwitch, SpecEdit, SpecAttach, SpecRepeat, SpecAct,        *)
(* SpecChat).                                                              *)
(***************************************************************************)
\* the tasks the step appended to the task list
NewTasks == SubSeq(tasks', Len(tasks) + 1, Len(tasks'))

\* C31: a global presence change writes nothing but current_document and
\* schedules nothing but focus-switch tasks: a user without UserTracker gets
\* none, a user whose client is on no notebook or on the stored document is
\* left as it is and gets no task, and a user whose current_document changes
\* gets it set to the reported notebook and exactly one task, carrying the
\* new and the previous document.
C31_GlobalChangeFrame ==
    [][last_op'.op = "_on_global_awareness_change" =>
         /\ Len(tasks') >= Len(tasks)
         /\ SubSeq(tasks', 1, Len(tasks)) = tasks
         /\ DOMAIN users' = DOMAIN users
         /\ <<rooms, observer_counter, _observer_callbacks, global_observed, nb_subs,
              now, notified>>' =
            <<rooms, observer_counter, _observer_callbacks, global_observed, nb_subs,
              now, notified>>
         /\ last_calls' = <<>>
         /\ \A k \in 1..Len(NewTasks) :
               LET t == NewTasks[k]
               IN /\ t.kind = "switch" /\ t.pc = "start"
                  /\ t.username \in DOMAIN users
                  /\ IsNotebook(t.current_doc)
                  /\ t.prev_doc = users[t.username].current_document
                  /\ t.prev_doc # t.current_doc
                  /\ users'[t.username].current_document = t.current_doc
         /\ \A u \in DOMAIN users :
               LET mine == {k \in 1..Len(NewTasks) : NewTasks[k].username = u}
               IN /\ users'[u] =
                       [users[u] EXCEPT !.current_document = users'[u].current_document]
                  /\ Cardinality(mine) =
                       IF users'[u].current_document # users[u].current_document THEN 1 ELSE 0]_vars

\* a registered user moved from one notebook to another: the stored
\* current_document is the new one and the task scheduled for the user
\* carries both
C31_Witness ==
    /\ last_op.op = "_on_global_awareness_change"
    /\ tasks # <<>>
    /\ LET t == tasks[Len(tasks)]
       IN /\ t.kind = "switch" /\ t.pc = "start"
          /\ IsNotebook(t.prev_doc)
          /\ t.prev_doc # t.current_doc
          /\ t.username \in DOMAIN users
          /\ users[t.username].current_document = t.current_doc

\* C32: when no resolution task is pending, every registered user whose
\* current_document is a notebook is in active_users of that notebook's room,
\* whatever the order in which the focus-switch tasks resumed.
C32_SettledMembership ==
    tasks = <<>> =>
        \A u \in DOMAIN users :
            IsNotebook(users[u].current_document) =>
                LET r == RoomOfPath(PathOf(users[u].current_document))
                IN r \in DOMAIN rooms /\ u \in rooms[r].active_users

\* C33: in every reachable state every notebook room has exactly one live
\* presence subscription and one live content-edit subscription on its
\* document when it has a RoomTracker, and none of either when it has none.
C33_SubscriptionsMatchTracker ==
    \A r \in NbRooms :
        /\ r \in DOMAIN rooms => nb_subs[r].awareness = 1 /\ nb_subs[r].notebook = 1
        /\ r \notin DOMAIN rooms => nb_subs[r].awareness = 0 /\ nb_subs[r].notebook = 0

\* C34: once the attach tasks have completed, two different registered users
\* whose tasks attached them to the same room are both in that room's
\* active_users, also when the tasks were suspended on the document resolver
\* together.
C34_BothUsersAttached ==
    tasks = <<>> =>
        \A u, v \in DOMAIN users :
            (/\ u # v
             /\ IsNotebook(users[u].current_document)
             /\ users[v].current_document = users[u].current_document) =>
                LET r == RoomOfPath(PathOf(users[u].current_document))
                IN r \in DOMAIN rooms /\ {u, v} \subseteq rooms[r].active_users

\* C35: when the presence callback of a room runs again on the presence map
\* of an earlier run, which stored a state for the user, it calls none of the
\* user's observers and leaves the user's stored state as it is, also for a
\* user who is on the map under two clients with different active cells.
C35_RepeatedMapIdle ==
    [][(last_op'.op = "_on_awareness_change" /\ last_op'.room \in DOMAIN rooms) =>
         \A u \in DOMAIN users :
             last_op'.room \in DOMAIN users[u].room_states =>
                 /\ users'[u] = users[u]
                 /\ \A k \in 1..Len(last_calls') : last_calls'[k].username # u]_vars

\* C36: the presence callback of a room calls the observers of a user, or
\* writes the user's stored state for the room, only when the user is in the
\* room's active_users.
C36_OnlyActiveUsers ==
    [][(last_op'.op = "_on_awareness_change" /\ last_op'.room \in DOMAIN rooms) =>
         LET r == last_op'.room
         IN \A u \in DOMAIN users :
                (\/ DictGet(users'[u].room_states, r, NoRoomState) #
                        DictGet(users[u].room_states, r, NoRoomState)
                 \/ \E k \in 1..Len(last_calls') : last_calls'[k].username = u) =>
                    u \in rooms[r].active_users]_vars

\* C37: in every reachable state a room id is a key of active_chats exactly
\* when a subscription callback is recorded for it in message_observers.
C37_ActiveIffSubscribed ==
    DOMAIN active_chats = DOMAIN message_observers

\* the step takes the user out of active_users of a room
Detached(u) ==
    \E r \in DOMAIN rooms :
        /\ u \in rooms[r].active_users
        /\ r \notin DOMAIN rooms' \/ u \notin rooms'[r].active_users

\* C38: a focus-switch task takes the user out of the previous room's
\* active_users only after it has put the user into the new room's; when the
\* new document's room id resolves to none, or the new room's document is
\* unavailable, the task leaves the room memberships and the user's per-room
\* states as they are.
C38_DetachOnlyAfterAttach ==
    [][(last_op'.op = "task" /\ last_op'.task.kind = "switch") =>
         LET t == last_op'.task
         IN /\ Detached(t.username) => t.room_id \in NbRooms /\ ~t.no_doc
            /\ (t.room_id = None \/ t.no_doc) => rooms' = rooms /\ users' = users]_vars
====
